---- MODULE Spec2Model ----
(***************************************************************************)
(* Model of the scroll-capture core of ashot:                              *)
(*   - ScrollSession, the capture-session state machine of                 *)
(*     crates/capture-core/src/lib.rs;                                     *)
(*   - the scroll monitor (reset_scroll_monitor / poll_scroll_region) of    *)
(*     src-tauri/src/commands.rs;                                          *)
(*   - the overlap search and the two stitchers (stitch_scroll_frames /    *)
(*     stitch_scroll_frames_preview) of src-tauri/src/commands.rs.         *)
(***************************************************************************)
EXTENDS Integers, Naturals, Sequences, FiniteSets, Bags, TLC

(***************************************************************************)
(* Integer widths.  consecutive_failures and max_consecutive_failures are  *)
(* u8 and keep their width.  captured_height_px, added_height and          *)
(* max_height_px are u32; TLC's integers are 32-bit signed, so the u32     *)
(* range is modelled as 0..U32_MAX with a small U32_MAX: every saturation  *)
(* and comparison is written against U32_MAX as the code's are against     *)
(* u32::MAX.  frames is a usize that the code increments by one per call;  *)
(* FramesCap stops the model before the count grows without bound.         *)
(* The sizes and coordinates of frames are u32 too, but they are compared   *)
(* and subtracted only, and added up over at most 80 frames: they are      *)
(* plain naturals here, far below u32::MAX.                                 *)
(***************************************************************************)
U8_MAX == 255
U32_MAX == 6
FramesCap == 3

Min(a, b) == IF a <= b THEN a ELSE b
Max(a, b) == IF a >= b THEN a ELSE b

\* Mutant: the addition wraps around instead of saturating.
wrapping_add_u32(a, b) == (a + b) % (U32_MAX + 1)

\* u32::saturating_add / u8::saturating_add: the sum, or the type's maximum
\* when the sum would exceed it.
saturating_add_u32(a, b) == IF a + b > U32_MAX THEN U32_MAX ELSE a + b
saturating_add_u8(a, b) == IF a + b > U8_MAX THEN U8_MAX ELSE a + b

\* u32::saturating_sub: the difference, or 0 when it would be negative.
saturating_sub(a, b) == IF a < b THEN 0 ELSE a - b

\* The sum of the values of f, a function into the naturals: what a loop
\* that adds f[p] to a total for every p of the domain ends with.
Sum(f) == BagCardinality([p \in DOMAIN f |-> f[p] + 1]) - Cardinality(DOMAIN f)

(***************************************************************************)
(* Types of capture-core.                                                  *)
(***************************************************************************)
ScrollSessionState == {"Ready", "Capturing", "Paused", "Done", "Error"}
SkipReason == {"Duplicate", "TooSmallDelta", "MatchFailed"}
StopReason == {"User", "Timeout", "ReachedMaxHeight", "NoNewContent", "ConsecutiveFailures"}

\* AppendResult::Accepted { dy, score } | Skipped(reason) | AutoStopped(reason)
Accepted(dy, score) == [kind |-> "Accepted", dy |-> dy, score |-> score]
Skipped(reason) == [kind |-> "Skipped", reason |-> reason]
AutoStopped(reason) == [kind |-> "AutoStopped", reason |-> reason]

\* ScrollProgress { frames, captured_height_px, state }
ScrollProgress(frames, captured_height_px, state) ==
  [kind |-> "Progress", frames |-> frames,
   captured_height_px |-> captured_height_px, state |-> state]

\* The value of a call that returns ()
Unit == [kind |-> "Unit"]

\* ScrollConfig::default()
DefaultThrottleMs == 100

\* The configurations sessions are created with: every pairing of a height
\* limit (one no append stays under, one reached exactly by two appends,
\* the largest u32) with a frame limit (one inside the modelled frame range,
\* one beyond it); then, on one of these, the failure limits 0, 1 and the
\* largest u8, and the frame limit 0.
MidHeight == 4
Config(max_height_px, max_frames, max_consecutive_failures) ==
  [max_height_px |-> max_height_px,
   max_frames |-> max_frames,
   throttle_ms |-> DefaultThrottleMs,
   max_consecutive_failures |-> max_consecutive_failures]
Configs ==
  {Config(h, f, 2) : h \in {0, MidHeight, U32_MAX}, f \in {2, FramesCap + 1}}
    \cup {Config(MidHeight, 2, n) : n \in {0, 1, U8_MAX}}
    \cup {Config(MidHeight, 0, 2)}

\* Arguments of append_accepted.  A score is an f64 the session only passes
\* through; it is modelled in hundredths (93 is 0.93).
AddedHeights == {0, 2, U32_MAX}
Scores == {0, 93}

(***************************************************************************)
(* impl ScrollSession: each method as a function of the session value.     *)
(* Methods that return a value give [session, result].                     *)
(***************************************************************************)
new(config) ==
  [state |-> "Ready",
   config |-> config,
   frames |-> 0,
   captured_height_px |-> 0,
   consecutive_failures |-> 0]

\* Mutant: the state test is missing.
mark_capturing_unguarded(s) == [s EXCEPT !.state = "Capturing"]

\* Mutant: Paused is forgotten in the state test.
mark_capturing_ready_only(s) ==
  IF s.state = "Ready" THEN [s EXCEPT !.state = "Capturing"] ELSE s

mark_capturing(s) ==
  IF s.state = "Ready" \/ s.state = "Paused"
    THEN [s EXCEPT !.state = "Capturing"]
    ELSE s

\* Mutant: the frame limit is never tested.
append_accepted_no_frame_limit(s, added_height, score) ==
  LET s1 == [s EXCEPT !.frames = s.frames + 1,
                      !.captured_height_px =
                          saturating_add_u32(s.captured_height_px, added_height),
                      !.consecutive_failures = 0]
  IN  IF s1.captured_height_px >= s1.config.max_height_px
        THEN [session |-> [s1 EXCEPT !.state = "Done"],
              result |-> AutoStopped("ReachedMaxHeight")]
      ELSE [session |-> [s1 EXCEPT !.state = "Capturing"],
            result |-> Accepted(added_height, score)]

append_accepted(s, added_height, score) ==
  LET s1 == [s EXCEPT !.frames = s.frames + 1,
                      !.captured_height_px =
                          saturating_add_u32(s.captured_height_px, added_height),
                      !.consecutive_failures = 0]
  IN  IF s1.captured_height_px >= s1.config.max_height_px
        THEN [session |-> [s1 EXCEPT !.state = "Done"],
              result |-> AutoStopped("ReachedMaxHeight")]
      ELSE IF s1.frames >= s1.config.max_frames
        THEN [session |-> [s1 EXCEPT !.state = "Done"],
              result |-> AutoStopped("ReachedMaxHeight")]
      ELSE [session |-> [s1 EXCEPT !.state = "Capturing"],
            result |-> Accepted(added_height, score)]

\* Mutant: the failure limit is tested with > instead of >=.
append_failed_gt(s) ==
  LET s1 == [s EXCEPT !.consecutive_failures =
                          saturating_add_u8(s.consecutive_failures, 1)]
  IN  IF s1.consecutive_failures > s1.config.max_consecutive_failures
        THEN [session |-> [s1 EXCEPT !.state = "Error"],
              result |-> AutoStopped("ConsecutiveFailures")]
        ELSE [session |-> s1,
              result |-> Skipped("MatchFailed")]

\* Mutant: the auto-stop on failures ends the session as Done, not Error.
append_failed_done(s) ==
  LET s1 == [s EXCEPT !.consecutive_failures =
                          saturating_add_u8(s.consecutive_failures, 1)]
  IN  IF s1.consecutive_failures >= s1.config.max_consecutive_failures
        THEN [session |-> [s1 EXCEPT !.state = "Done"],
              result |-> AutoStopped("ConsecutiveFailures")]
        ELSE [session |-> s1,
              result |-> Skipped("MatchFailed")]

append_failed(s) ==
  LET s1 == [s EXCEPT !.consecutive_failures =
                          saturating_add_u8(s.consecutive_failures, 1)]
  IN  IF s1.consecutive_failures >= s1.config.max_consecutive_failures
        THEN [session |-> [s1 EXCEPT !.state = "Error"],
              result |-> AutoStopped("ConsecutiveFailures")]
        ELSE [session |-> s1,
              result |-> Skipped("MatchFailed")]

\* Mutant: cancel leaves a failed session alone.
cancel_guarded(s) == IF s.state = "Error" THEN s ELSE [s EXCEPT !.state = "Done"]

\* Mutant: cancel also discards the progress made.
cancel_reset(s) ==
  [s EXCEPT !.state = "Done", !.frames = 0, !.captured_height_px = 0]

cancel(s) == [s EXCEPT !.state = "Done"]

\* Mutant: the two counters are swapped in the snapshot.
progress_swapped(s) == ScrollProgress(s.captured_height_px, s.frames, s.state)

progress(s) == ScrollProgress(s.frames, s.captured_height_px, s.state)

(***************************************************************************)
(* Frames.  A bitmap is described by its size and the start value of the    *)
(* generator that fills it (build_frame of the tests of commands.rs); its   *)
(* pixels are computed from these on demand.                                *)
(***************************************************************************)
build_frame(width, height, start) ==
  [width |-> width, height |-> height, start |-> start]

\* img.get_pixel(x, y) of build_frame(width, height, start): <<r, g, b, a>>
get_pixel(img, x, y) ==
  LET value == (img.start + y + x \div 3) % 255
  IN  <<value, value \div 2, 255 - value, 255>>

\* get_pixel panics when the coordinates are outside the image.
InBounds(img, x, y) == x < img.width /\ y < img.height

Abs(a) == IF a < 0 THEN -a ELSE a

\* |p.r - c.r| + |p.g - c.g| + |p.b - c.b|: three times what the code adds
\* to the total for one sampled pixel (alpha is not read).
ChannelDiff(p, c) == Abs(p[1] - c[1]) + Abs(p[2] - c[2]) + Abs(p[3] - c[3])

\* An f64 score as the exact fraction num / den; the rounding of the f64
\* sum and quotient is not modelled, so a comparison is the code's except
\* where the exact value lies within rounding error of the threshold.
Fraction(num, den) == [num |-> num, den |-> den]
AtLeast(score, num, den) == score.num * den >= num * score.den

\* The pixels sample_frame_difference reads: the while loops start at 0 and
\* advance by the step while below the size of prev.
Sampled(size, step) == {i \in 0..(size - 1) : i % step = 0}

\* The channel differences of the sampled pixels (x, y), added up.
SampleTotal(prev, current, xs, ys) ==
  Sum([p \in xs \X ys |->
         ChannelDiff(get_pixel(prev, p[1], p[2]), get_pixel(current, p[1], p[2]))])

\* Mutant: a frame of one row or of one column counts as empty.
sample_frame_difference_single_line_empty(prev, current) ==
  IF prev.width <= 1 \/ prev.height <= 1
    THEN [panic |-> FALSE, score |-> Fraction(255, 1)]
    ELSE LET col_step == Max(prev.width \div 80, 1)
             row_step == Max(prev.height \div 80, 1)
             xs == Sampled(prev.width, col_step)
             ys == Sampled(prev.height, row_step)
             count == Cardinality(xs) * Cardinality(ys)
         IN  IF \E y \in ys, x \in xs : ~InBounds(current, x, y)
               THEN [panic |-> TRUE, score |-> Fraction(255, 1)]
             ELSE IF count = 0
               THEN [panic |-> FALSE, score |-> Fraction(255, 1)]
             ELSE [panic |-> FALSE,
                   score |-> Fraction(SampleTotal(prev, current, xs, ys),
                                      3 * count)]

\* Mutant: a sampled pixel outside current counts as the largest difference
\* instead of stopping the call.
sample_frame_difference_no_panic(prev, current) ==
  IF prev.width = 0 \/ prev.height = 0
    THEN [panic |-> FALSE, score |-> Fraction(255, 1)]
    ELSE LET col_step == Max(prev.width \div 80, 1)
             row_step == Max(prev.height \div 80, 1)
             xs == Sampled(prev.width, col_step)
             ys == Sampled(prev.height, row_step)
             count == Cardinality(xs) * Cardinality(ys)
         IN  IF count = 0 \/ \E y \in ys, x \in xs : ~InBounds(current, x, y)
               THEN [panic |-> FALSE, score |-> Fraction(255, 1)]
               ELSE [panic |-> FALSE,
                     score |-> Fraction(SampleTotal(prev, current, xs, ys),
                                        3 * count)]

\* sample_frame_difference(prev, current): [panic, score].  The score is the
\* mean over the samples of the mean absolute difference of R, G and B; the
\* call panics when a sampled pixel lies outside current.
sample_frame_difference(prev, current) ==
  IF prev.width = 0 \/ prev.height = 0
    THEN [panic |-> FALSE, score |-> Fraction(255, 1)]
    ELSE LET col_step == Max(prev.width \div 80, 1)
             row_step == Max(prev.height \div 80, 1)
             xs == Sampled(prev.width, col_step)
             ys == Sampled(prev.height, row_step)
             count == Cardinality(xs) * Cardinality(ys)
         IN  IF \E y \in ys, x \in xs : ~InBounds(current, x, y)
               THEN [panic |-> TRUE, score |-> Fraction(255, 1)]
             ELSE IF count = 0
               THEN [panic |-> FALSE, score |-> Fraction(255, 1)]
             ELSE [panic |-> FALSE,
                   score |-> Fraction(SampleTotal(prev, current, xs, ys),
                                      3 * count)]

(***************************************************************************)
(* The scroll monitor of commands.rs.                                      *)
(***************************************************************************)
\* Option<T> as a sequence of at most one element.
None == <<>>
Some(x) == <<x>>

\* validate_rect(rect): TRUE for Ok(())
validate_rect(rect) == ~(rect.width < 10 \/ rect.height < 10)

\* ScrollMonitorState as reset_scroll_monitor and get_or_insert_with make it
NewScrollMonitorState ==
  [prev_frame |-> None, was_scrolling |-> FALSE, stable_count |-> 0, frame_count |-> 0]

\* Result<ScrollPollResult, String>, and the outcome of a call that panicked
PollOk(state, frame_path, frame_count) ==
  [kind |-> "Ok", state |-> state, frame_path |-> frame_path,
   frame_count |-> frame_count, error |-> ""]
PollErr(error) ==
  [kind |-> "Err", state |-> "", frame_path |-> None, frame_count |-> 0, error |-> error]
PollPanic ==
  [kind |-> "Panic", state |-> "", frame_path |-> None, frame_count |-> 0, error |-> ""]

\* Saving a frame: generate_filename, create_dir_all, save and to_str, each of
\* which can fail.  The file is on disk once save has succeeded, also when
\* to_str then fails.
SaveOutcomes == {"ok", "filename", "create_dir", "save", "encode_path"}
SaveError(save, what) ==
  CASE save = "filename" -> "Failed to generate filename"
    [] save = "create_dir" -> "Failed to create frames dir"
    [] save = "save" -> "Failed to save " \o what \o " frame"
    [] OTHER -> "Failed to encode frame path"
Written(dir, frame, save) ==
  IF save \in {"ok", "encode_path"}
    THEN [count |-> dir.count + 1, last |-> Some(frame)]
    ELSE dir

\* Mutant: the first poll reports the frame but does not keep it as the
\* baseline.
first_poll_no_baseline(st, current, save, dir) ==
  IF save = "ok"
    THEN [state |-> [st EXCEPT !.frame_count = 1],
          dir |-> Written(dir, current, save),
          result |-> PollOk("captured", Some(dir.count + 1), 1)]
    ELSE [state |-> st,
          dir |-> Written(dir, current, save),
          result |-> PollErr(SaveError(save, "initial"))]

\* poll_scroll_region from the lock on, with no previous frame stored: the
\* frame is saved and becomes the baseline.  st is the monitor state, dir the
\* frames directory; the result is [state, dir, result].
first_poll(st, current, save, dir) ==
  IF save = "ok"
    THEN [state |-> [st EXCEPT !.prev_frame = Some(current), !.frame_count = 1],
          dir |-> Written(dir, current, save),
          result |-> PollOk("captured", Some(dir.count + 1), 1)]
    ELSE [state |-> st,
          dir |-> Written(dir, current, save),
          result |-> PollErr(SaveError(save, "initial"))]

\* Mutant: a scrolling poll keeps comparing against the old previous frame.
next_poll_stale_baseline(st, current, diff, save, dir) ==
  IF diff.panic
    THEN [state |-> st, dir |-> dir, result |-> PollPanic]
  ELSE IF AtLeast(diff.score, 18, 10)
    THEN [state |-> [st EXCEPT !.was_scrolling = TRUE, !.stable_count = 0],
          dir |-> dir,
          result |-> PollOk("scrolling", None, st.frame_count)]
  ELSE IF st.was_scrolling
    THEN LET st1 == [st EXCEPT !.was_scrolling = FALSE, !.stable_count = 0]
         IN  IF save = "ok"
               THEN [state |-> [st1 EXCEPT !.prev_frame = Some(current),
                                           !.frame_count = st.frame_count + 1],
                     dir |-> Written(dir, current, save),
                     result |-> PollOk("captured", Some(dir.count + 1),
                                       st.frame_count + 1)]
               ELSE [state |-> st1,
                     dir |-> Written(dir, current, save),
                     result |-> PollErr(SaveError(save, "scroll"))]
  ELSE [state |-> st, dir |-> dir,
        result |-> PollOk("unchanged", None, st.frame_count)]

\* Mutant: the poll that captures the stabilised frame leaves was_scrolling set.
next_poll_keeps_flag(st, current, diff, save, dir) ==
  IF diff.panic
    THEN [state |-> st, dir |-> dir, result |-> PollPanic]
  ELSE IF AtLeast(diff.score, 18, 10)
    THEN [state |-> [st EXCEPT !.was_scrolling = TRUE,
                               !.stable_count = 0,
                               !.prev_frame = Some(current)],
          dir |-> dir,
          result |-> PollOk("scrolling", None, st.frame_count)]
  ELSE IF st.was_scrolling
    THEN LET st1 == [st EXCEPT !.stable_count = 0]
         IN  IF save = "ok"
               THEN [state |-> [st1 EXCEPT !.prev_frame = Some(current),
                                           !.frame_count = st.frame_count + 1],
                     dir |-> Written(dir, current, save),
                     result |-> PollOk("captured", Some(dir.count + 1),
                                       st.frame_count + 1)]
               ELSE [state |-> st1,
                     dir |-> Written(dir, current, save),
                     result |-> PollErr(SaveError(save, "scroll"))]
  ELSE [state |-> st, dir |-> dir,
        result |-> PollOk("unchanged", None, st.frame_count)]

\* Mutant: an unchanged poll replaces the previous frame by the current one.
next_poll_adopts_unchanged(st, current, diff, save, dir) ==
  IF diff.panic
    THEN [state |-> st, dir |-> dir, result |-> PollPanic]
  ELSE IF AtLeast(diff.score, 18, 10)
    THEN [state |-> [st EXCEPT !.was_scrolling = TRUE,
                               !.stable_count = 0,
                               !.prev_frame = Some(current)],
          dir |-> dir,
          result |-> PollOk("scrolling", None, st.frame_count)]
  ELSE IF st.was_scrolling
    THEN LET st1 == [st EXCEPT !.was_scrolling = FALSE, !.stable_count = 0]
         IN  IF save = "ok"
               THEN [state |-> [st1 EXCEPT !.prev_frame = Some(current),
                                           !.frame_count = st.frame_count + 1],
                     dir |-> Written(dir, current, save),
                     result |-> PollOk("captured", Some(dir.count + 1),
                                       st.frame_count + 1)]
               ELSE [state |-> st1,
                     dir |-> Written(dir, current, save),
                     result |-> PollErr(SaveError(save, "scroll"))]
  ELSE [state |-> [st EXCEPT !.prev_frame = Some(current)], dir |-> dir,
        result |-> PollOk("unchanged", None, st.frame_count)]

\* poll_scroll_region from the lock on, with a previous frame stored; diff
\* is sample_frame_difference(prev_frame, current).
next_poll(st, current, diff, save, dir) ==
  IF diff.panic
    THEN [state |-> st, dir |-> dir, result |-> PollPanic]
  ELSE IF AtLeast(diff.score, 18, 10)
    THEN [state |-> [st EXCEPT !.was_scrolling = TRUE,
                               !.stable_count = 0,
                               !.prev_frame = Some(current)],
          dir |-> dir,
          result |-> PollOk("scrolling", None, st.frame_count)]
  ELSE IF st.was_scrolling
    THEN LET st1 == [st EXCEPT !.was_scrolling = FALSE, !.stable_count = 0]
         IN  IF save = "ok"
               THEN [state |-> [st1 EXCEPT !.prev_frame = Some(current),
                                           !.frame_count = st.frame_count + 1],
                     dir |-> Written(dir, current, save),
                     result |-> PollOk("captured", Some(dir.count + 1),
                                       st.frame_count + 1)]
               ELSE [state |-> st1,
                     dir |-> Written(dir, current, save),
                     result |-> PollErr(SaveError(save, "scroll"))]
  ELSE [state |-> st, dir |-> dir,
        result |-> PollOk("unchanged", None, st.frame_count)]

\* The state poll_scroll_region works on once SCROLL_MONITOR is locked:
\* monitor.get_or_insert_with(..).  mon is the Option<ScrollMonitorState>.
get_or_insert(mon) == IF mon = None THEN NewScrollMonitorState ELSE mon[1]

\* The difference poll_scroll_region computes for current, if it gets there.
NoDifference == [panic |-> FALSE, score |-> Fraction(0, 1)]
poll_difference(mon, current) ==
  LET st == get_or_insert(mon)
  IN  IF st.prev_frame = None
        THEN NoDifference
        ELSE sample_frame_difference(st.prev_frame[1], current)

\* Whether the poll saves current: the first poll does, and so does the one
\* that finds the content stable after scrolling.
poll_saves(mon, diff) ==
  LET st == get_or_insert(mon)
  IN  \/ st.prev_frame = None
      \/ ~diff.panic /\ ~AtLeast(diff.score, 18, 10) /\ st.was_scrolling

\* poll_scroll_region from the lock on: one of the two cases above.
poll_locked(mon, current, diff, save, dir) ==
  LET st == get_or_insert(mon)
  IN  IF st.prev_frame = None
        THEN first_poll(st, current, save, dir)
        ELSE next_poll(st, current, diff, save, dir)

(***************************************************************************)
(* The overlap search of commands.rs.  Its callers pass two frames of the  *)
(* same size, so every pixel it reads exists.                              *)
(***************************************************************************)
MAX_SCROLL_FRAMES == 80
MIN_SCROLL_OVERLAP == 24
MIN_SCROLL_NEW_CONTENT == 40
MAX_SCROLL_MATCH_ERROR == 42

\* f64::MAX, which is above every score: the fraction 1 / 0 compares as
\* larger than every fraction with a positive denominator.
F64_MAX == Fraction(1, 0)
LessThan(a, b) == a.num * b.den < b.num * a.den

\* Mutant: the first rows of current are compared with the first rows of
\* prev, not with its last.
overlap_error_from_top(prev, current, overlap) ==
  IF overlap = 0 \/ overlap > prev.height
    THEN F64_MAX
    ELSE LET x_start == (prev.width * 15) \div 100
             x_end == (prev.width * 85) \div 100
             col_step == Max(saturating_sub(x_end, x_start) \div 70, 1)
             row_step == Max(overlap \div 80, 1)
             xs == {x \in x_start..(x_end - 1) : (x - x_start) % col_step = 0}
             rs == Sampled(overlap, row_step)
             samples == Cardinality(xs) * Cardinality(rs)
         IN  IF samples = 0
               THEN F64_MAX
               ELSE Fraction(
                      Sum([p \in xs \X rs |->
                             ChannelDiff(get_pixel(prev, p[1], p[2]),
                                         get_pixel(current, p[1], p[2]))]),
                      3 * samples)

\* overlap_error(prev, current, overlap): the mean difference between the
\* last overlap rows of prev and the first overlap rows of current, sampled
\* in the columns from 15% to 85% of the width.
overlap_error(prev, current, overlap) ==
  IF overlap = 0 \/ overlap > prev.height
    THEN F64_MAX
    ELSE LET x_start == (prev.width * 15) \div 100
             x_end == (prev.width * 85) \div 100
             col_step == Max(saturating_sub(x_end, x_start) \div 70, 1)
             row_step == Max(overlap \div 80, 1)
             xs == {x \in x_start..(x_end - 1) : (x - x_start) % col_step = 0}
             rs == Sampled(overlap, row_step)
             samples == Cardinality(xs) * Cardinality(rs)
         IN  IF samples = 0
               THEN F64_MAX
               ELSE Fraction(
                      Sum([p \in xs \X rs |->
                             ChannelDiff(get_pixel(prev, p[1], prev.height - overlap + p[2]),
                                         get_pixel(current, p[1], p[2]))]),
                      3 * samples)

\* Mutant: a candidate replaces the best so far also when its error is equal.
BestOverlap_last_minimum(prev, current, overlap, max_overlap, best) ==
  LET errors == [o \in overlap..max_overlap |-> overlap_error(prev, current, o)]
      candidates == {o \in overlap..max_overlap : (o - overlap) % 2 = 0}
      least == {o \in candidates :
                  \A c \in candidates : ~LessThan(errors[c], errors[o])}
  IN  IF candidates = {}
        THEN best
        ELSE [overlap |-> CHOOSE o \in least : \A c \in least : c <= o,
              error |-> errors[CHOOSE o \in least : \A c \in least : c <= o]]

\* The search loop of find_best_overlap from the candidate overlap on: best
\* is [overlap, error], the first candidate with the least error so far.
RECURSIVE BestOverlap(_, _, _, _, _)
BestOverlap(prev, current, overlap, max_overlap, best) ==
  IF overlap <= max_overlap
    THEN LET err == overlap_error(prev, current, overlap)
         IN  BestOverlap(prev, current, overlap + 2, max_overlap,
                         IF LessThan(err, best.error)
                           THEN [overlap |-> overlap, error |-> err]
                           ELSE best)
    ELSE best

\* Result<(u32, f64), String>
OverlapOk(overlap, error) ==
  [ok |-> TRUE, overlap |-> overlap, error |-> error, message |-> ""]
OverlapErr(message) ==
  [ok |-> FALSE, overlap |-> 0, error |-> F64_MAX, message |-> message]

\* Mutant: only the smallest overlap is tried.
find_best_overlap_first_candidate(prev, current) ==
  LET height == prev.height
      min_overlap == Min(MIN_SCROLL_OVERLAP, saturating_sub(height, 1))
      best == BestOverlap(prev, current, min_overlap, min_overlap,
                          [overlap |-> 0, error |-> F64_MAX])
  IN  IF best.overlap = 0
        THEN OverlapErr("Failed to detect overlap between captured frames")
      ELSE IF LessThan(Fraction(MAX_SCROLL_MATCH_ERROR, 1), best.error)
        THEN OverlapErr("Scroll frame matching failed. Try slower scrolling and keep region stable.")
      ELSE OverlapOk(best.overlap, best.error)

\* Mutant: the least error is not held against MAX_SCROLL_MATCH_ERROR.
find_best_overlap_no_ceiling(prev, current) ==
  LET height == prev.height
      min_overlap == Min(MIN_SCROLL_OVERLAP, saturating_sub(height, 1))
      max_overlap == Max(saturating_sub(height, MIN_SCROLL_NEW_CONTENT), min_overlap)
      best == BestOverlap(prev, current, min_overlap, max_overlap,
                          [overlap |-> 0, error |-> F64_MAX])
  IN  IF best.overlap = 0
        THEN OverlapErr("Failed to detect overlap between captured frames")
        ELSE OverlapOk(best.overlap, best.error)

\* find_best_overlap(prev, current)
find_best_overlap(prev, current) ==
  LET height == prev.height
      min_overlap == Min(MIN_SCROLL_OVERLAP, saturating_sub(height, 1))
      max_overlap == Max(saturating_sub(height, MIN_SCROLL_NEW_CONTENT), min_overlap)
      best == BestOverlap(prev, current, min_overlap, max_overlap,
                          [overlap |-> 0, error |-> F64_MAX])
  IN  IF best.overlap = 0
        THEN OverlapErr("Failed to detect overlap between captured frames")
      ELSE IF LessThan(Fraction(MAX_SCROLL_MATCH_ERROR, 1), best.error)
        THEN OverlapErr("Scroll frame matching failed. Try slower scrolling and keep region stable.")
      ELSE OverlapOk(best.overlap, best.error)

(***************************************************************************)
(* The stitchers of commands.rs.  An image made from frames is described   *)
(* row by row: every piece spans the full width of its frame and all       *)
(* frames of a stitch have the same width, so a row of a composite is one  *)
(* row of one frame.                                                       *)
(***************************************************************************)
\* Mutant: the crop starts at the top of the frame.
crop_imm_from_top(image, x, y, width, height) ==
  [src |-> image, x |-> x, y |-> 0, width |-> width, height |-> height]

\* crop_imm(image, x, y, width, height).to_image(): the rectangle of that
\* size at (x, y) of a frame; it lies inside the frame at every call.
crop_imm(image, x, y, width, height) ==
  [src |-> image, x |-> x, y |-> y, width |-> width, height |-> height]

\* frame.clone() as a piece: the whole frame
whole(image) == crop_imm(image, 0, 0, image.width, image.height)

\* RgbaImage::new(width, height): rows that come from no frame
BlankRow == [src |-> None, y |-> 0]
new_image(width, height) ==
  [width |-> width, height |-> height, rows |-> [r \in 0..(height - 1) |-> BlankRow]]

\* Mutant: every piece is pasted at the top of the image.
replace_at_origin(bottom, top, y) ==
  [bottom EXCEPT !.rows =
     [r \in DOMAIN bottom.rows |->
        IF r < top.height
          THEN [src |-> Some(top.src), y |-> top.y + r]
          ELSE bottom.rows[r]]]

\* imageops::replace(&mut bottom, &top, 0, y): the rows of the piece top
\* written over the rows of bottom from row y on.
replace(bottom, top, y) ==
  [bottom EXCEPT !.rows =
     [r \in DOMAIN bottom.rows |->
        IF r >= y /\ r < y + top.height
          THEN [src |-> Some(top.src), y |-> top.y + (r - y)]
          ELSE bottom.rows[r]]]

\* for piece in pieces { replace(result, piece, 0, y_offset);
\*                       y_offset += piece.height() }, from piece i on
RECURSIVE place_pieces(_, _, _, _)
place_pieces(result, pieces, i, y_offset) ==
  IF i <= Len(pieces)
    THEN place_pieces(replace(result, pieces[i], y_offset), pieces, i + 1,
                      y_offset + pieces[i].height)
    ELSE result

\* final_height, and the image the pieces are pasted into one below the other
final_height(pieces) == Sum([i \in DOMAIN pieces |-> pieces[i].height])
compose(pieces, width) ==
  place_pieces(new_image(width, final_height(pieces)), pieces, 1, 0)

\* The local variables of a stitch: where the call is (pc: "call" before it
\* runs, "loop" in the loop over the frames, "return" after it), the frames
\* it loaded, how many of the frames after frame 0 the loop has handled, the
\* pieces, the running reference frame, the skip count, and how saving went.
StitchLocals(pc, loaded_frames, idx, pieces, prev_frame, skipped_frames, save) ==
  [pc |-> pc, loaded_frames |-> loaded_frames, idx |-> idx, pieces |-> pieces,
   prev_frame |-> prev_frame, skipped_frames |-> skipped_frames, save |-> save]
NoStitch == StitchLocals("call", <<>>, 0, <<>>, None, 0, "")
Returned(st, save) == [st EXCEPT !.pc = "return", !.save = save]

\* Result<StitchResult, String> and Result<String, String>; "Pending" while
\* the call has not returned.
StitchOk(path, total_frames, used_frames, skipped_frames, height) ==
  [kind |-> "Ok", error |-> "", path |-> path, total_frames |-> total_frames,
   used_frames |-> used_frames, skipped_frames |-> skipped_frames,
   final_height |-> height]
StitchErr(error) ==
  [kind |-> "Err", error |-> error, path |-> "", total_frames |-> 0,
   used_frames |-> 0, skipped_frames |-> 0, final_height |-> 0]
StitchPending ==
  [kind |-> "Pending", error |-> "", path |-> "", total_frames |-> 0,
   used_frames |-> 0, skipped_frames |-> 0, final_height |-> 0]

\* image::open(path) for every path: a path is the frame its file holds, or
\* None when the file cannot be read.
Unreadable(frame_paths) == \E i \in DOMAIN frame_paths : frame_paths[i] = None
load_frames(frame_paths) == [i \in DOMAIN frame_paths |-> frame_paths[i][1]]

\* The checks on the loaded frames, the same in both stitchers: the error,
\* or "" when they pass.
check_dimensions(loaded_frames) ==
  IF loaded_frames[1].width < 20 \/ loaded_frames[1].height < 20
    THEN "Captured frame is too small"
  ELSE IF \E i \in 2..Len(loaded_frames) :
            \/ loaded_frames[i].width # loaded_frames[1].width
            \/ loaded_frames[i].height # loaded_frames[1].height
    THEN "Scroll frames have different dimensions"
  ELSE ""

\* pieces and prev_frame before the loop: frame 0, whole
seeded(loaded_frames) ==
  StitchLocals("loop", loaded_frames, 0, <<whole(loaded_frames[1])>>,
               Some(loaded_frames[1]), 0, "")

\* Mutant: the number of frames is not checked against MAX_SCROLL_FRAMES.
stitch_enter_uncapped(frame_paths) ==
  IF Len(frame_paths) < 2
    THEN [error |-> "At least two frames are required to stitch scroll capture",
          locals |-> Returned(NoStitch, "")]
  ELSE IF Unreadable(frame_paths)
    THEN [error |-> "Failed to open frame", locals |-> Returned(NoStitch, "")]
  ELSE IF check_dimensions(load_frames(frame_paths)) # ""
    THEN [error |-> check_dimensions(load_frames(frame_paths)),
          locals |-> Returned(NoStitch, "")]
  ELSE [error |-> "", locals |-> seeded(load_frames(frame_paths))]

\* stitch_scroll_frames up to its loop: [error, locals], with error "" when
\* the loop is entered.
stitch_enter(frame_paths) ==
  IF Len(frame_paths) < 2
    THEN [error |-> "At least two frames are required to stitch scroll capture",
          locals |-> Returned(NoStitch, "")]
  ELSE IF Len(frame_paths) > MAX_SCROLL_FRAMES
    THEN [error |-> "Too many frames. Maximum is 80",
          locals |-> Returned(NoStitch, "")]
  ELSE IF Unreadable(frame_paths)
    THEN [error |-> "Failed to open frame", locals |-> Returned(NoStitch, "")]
  ELSE IF check_dimensions(load_frames(frame_paths)) # ""
    THEN [error |-> check_dimensions(load_frames(frame_paths)),
          locals |-> Returned(NoStitch, "")]
  ELSE [error |-> "", locals |-> seeded(load_frames(frame_paths))]

\* The frame the loop handles next.
NextFrame(st) == st.loaded_frames[st.idx + 2]

\* Mutant: a frame skipped as too similar becomes the running reference.
stitch_frame_skip_advances(st, frame) ==
  IF ~AtLeast(sample_frame_difference(st.prev_frame[1], frame).score, 18, 10)
    THEN [st EXCEPT !.skipped_frames = @ + 1, !.idx = @ + 1,
                    !.prev_frame = Some(frame)]
    ELSE LET found == find_best_overlap(st.prev_frame[1], frame)
             slice_height == saturating_sub(frame.height, found.overlap)
         IN  IF ~found.ok
               THEN [st EXCEPT !.skipped_frames = @ + 1, !.idx = @ + 1]
             ELSE IF slice_height < 10
               THEN [st EXCEPT !.skipped_frames = @ + 1, !.idx = @ + 1]
             ELSE [st EXCEPT !.pieces = Append(@, crop_imm(frame, 0, found.overlap,
                                                           frame.width, slice_height)),
                             !.prev_frame = Some(frame),
                             !.idx = @ + 1]

\* Mutant: a frame whose overlap is not found is not counted as skipped.
stitch_frame_failed_match_uncounted(st, frame) ==
  IF ~AtLeast(sample_frame_difference(st.prev_frame[1], frame).score, 18, 10)
    THEN [st EXCEPT !.skipped_frames = @ + 1, !.idx = @ + 1]
    ELSE LET found == find_best_overlap(st.prev_frame[1], frame)
             slice_height == saturating_sub(frame.height, found.overlap)
         IN  IF ~found.ok
               THEN [st EXCEPT !.idx = @ + 1]
             ELSE IF slice_height < 10
               THEN [st EXCEPT !.skipped_frames = @ + 1, !.idx = @ + 1]
             ELSE [st EXCEPT !.pieces = Append(@, crop_imm(frame, 0, found.overlap,
                                                           frame.width, slice_height)),
                             !.prev_frame = Some(frame),
                             !.idx = @ + 1]

\* Mutant: a slice of any height is appended.
stitch_frame_any_slice(st, frame) ==
  IF ~AtLeast(sample_frame_difference(st.prev_frame[1], frame).score, 18, 10)
    THEN [st EXCEPT !.skipped_frames = @ + 1, !.idx = @ + 1]
    ELSE LET found == find_best_overlap(st.prev_frame[1], frame)
             slice_height == saturating_sub(frame.height, found.overlap)
         IN  IF ~found.ok
               THEN [st EXCEPT !.skipped_frames = @ + 1, !.idx = @ + 1]
             ELSE [st EXCEPT !.pieces = Append(@, crop_imm(frame, 0, found.overlap,
                                                           frame.width, slice_height)),
                             !.prev_frame = Some(frame),
                             !.idx = @ + 1]

\* One pass of the loop of stitch_scroll_frames, on frame: skipped when it
\* differs too little from the reference, when no overlap is found or when
\* the rows below the overlap are fewer than 10; else its rows below the
\* overlap become the next piece and the frame the reference.
stitch_frame(st, frame) ==
  IF ~AtLeast(sample_frame_difference(st.prev_frame[1], frame).score, 18, 10)
    THEN [st EXCEPT !.skipped_frames = @ + 1, !.idx = @ + 1]
    ELSE LET found == find_best_overlap(st.prev_frame[1], frame)
             slice_height == saturating_sub(frame.height, found.overlap)
         IN  IF ~found.ok
               THEN [st EXCEPT !.skipped_frames = @ + 1, !.idx = @ + 1]
             ELSE IF slice_height < 10
               THEN [st EXCEPT !.skipped_frames = @ + 1, !.idx = @ + 1]
             ELSE [st EXCEPT !.pieces = Append(@, crop_imm(frame, 0, found.overlap,
                                                           frame.width, slice_height)),
                             !.prev_frame = Some(frame),
                             !.idx = @ + 1]

\* Saving the composite: ensure_save_dir, generate_filename, save and to_str
\* in stitch_scroll_frames; create_dir_all, save and to_str in the preview.
StitchSaveOutcomes == {"ok", "save_dir", "filename", "save", "encode_path"}
PreviewSaveOutcomes == {"ok", "save_dir", "save", "encode_path"}
StitchSaveError(save) ==
  CASE save = "save_dir" -> "Failed to create save directory"
    [] save = "filename" -> "Failed to generate filename"
    [] save = "save" -> "Failed to save stitched image"
    [] OTHER -> "Failed to encode stitched file path"
PreviewSaveError(save) ==
  CASE save = "save_dir" -> "Failed to create preview directory"
    [] save = "save" -> "Failed to save preview image"
    [] OTHER -> "Failed to encode preview file path"
NotEnoughFrames ==
  "Not enough unique frames after filtering similar ones. Scroll further between captures."

\* The file written by a stitch: there once save has succeeded.
SavedFile(image, save) ==
  IF save \in {"ok", "encode_path"} THEN Some(image) ELSE None

\* Mutant: a stitch needs three pieces.
stitch_finish_needs_three(st, total_frames, save) ==
  IF Len(st.pieces) < 3
    THEN [result |-> StitchErr(NotEnoughFrames), file |-> None,
          locals |-> Returned(st, "")]
  ELSE IF save # "ok"
    THEN [result |-> StitchErr(StitchSaveError(save)),
          file |-> SavedFile(compose(st.pieces, st.loaded_frames[1].width), save),
          locals |-> Returned(st, save)]
  ELSE [result |-> StitchOk("scrollshot.png", total_frames, Len(st.pieces),
                            st.skipped_frames, final_height(st.pieces)),
        file |-> SavedFile(compose(st.pieces, st.loaded_frames[1].width), save),
        locals |-> Returned(st, save)]

\* stitch_scroll_frames after its loop: [result, file, locals].
stitch_finish(st, total_frames, save) ==
  IF Len(st.pieces) < 2
    THEN [result |-> StitchErr(NotEnoughFrames), file |-> None,
          locals |-> Returned(st, "")]
  ELSE IF save # "ok"
    THEN [result |-> StitchErr(StitchSaveError(save)),
          file |-> SavedFile(compose(st.pieces, st.loaded_frames[1].width), save),
          locals |-> Returned(st, save)]
  ELSE [result |-> StitchOk("scrollshot.png", total_frames, Len(st.pieces),
                            st.skipped_frames, final_height(st.pieces)),
        file |-> SavedFile(compose(st.pieces, st.loaded_frames[1].width), save),
        locals |-> Returned(st, save)]

\* Mutant: a longer list is cut to its first MAX_SCROLL_FRAMES paths.
capped_paths_first(frame_paths) ==
  IF Len(frame_paths) > MAX_SCROLL_FRAMES
    THEN SubSeq(frame_paths, 1, MAX_SCROLL_FRAMES)
    ELSE frame_paths

\* The last MAX_SCROLL_FRAMES paths of a longer list
capped_paths(frame_paths) ==
  IF Len(frame_paths) > MAX_SCROLL_FRAMES
    THEN SubSeq(frame_paths, saturating_sub(Len(frame_paths), MAX_SCROLL_FRAMES) + 1,
                Len(frame_paths))
    ELSE frame_paths

\* stitch_scroll_frames_preview up to its loop
preview_enter(frame_paths) ==
  IF Len(frame_paths) = 0
    THEN [error |-> "No frames available for preview",
          locals |-> Returned(NoStitch, "")]
  ELSE IF Unreadable(capped_paths(frame_paths))
    THEN [error |-> "Failed to open frame", locals |-> Returned(NoStitch, "")]
  ELSE IF check_dimensions(load_frames(capped_paths(frame_paths))) # ""
    THEN [error |-> check_dimensions(load_frames(capped_paths(frame_paths))),
          locals |-> Returned(NoStitch, "")]
  ELSE [error |-> "", locals |-> seeded(load_frames(capped_paths(frame_paths)))]

\* Mutant: the preview keeps frame 0 as the reference for every frame.
preview_frame_fixed_reference(st, frame) ==
  IF ~AtLeast(sample_frame_difference(st.prev_frame[1], frame).score, 18, 10)
    THEN [st EXCEPT !.idx = @ + 1]
    ELSE LET found == find_best_overlap(st.prev_frame[1], frame)
             slice_height == saturating_sub(frame.height, found.overlap)
         IN  IF ~found.ok
               THEN [st EXCEPT !.idx = @ + 1]
             ELSE IF slice_height < 10
               THEN [st EXCEPT !.idx = @ + 1]
             ELSE [st EXCEPT !.pieces = Append(@, crop_imm(frame, 0, found.overlap,
                                                           frame.width, slice_height)),
                             !.idx = @ + 1]

\* One pass of the loop of the preview: as in stitch_scroll_frames, but
\* skips are not counted.
preview_frame(st, frame) ==
  IF ~AtLeast(sample_frame_difference(st.prev_frame[1], frame).score, 18, 10)
    THEN [st EXCEPT !.idx = @ + 1]
    ELSE LET found == find_best_overlap(st.prev_frame[1], frame)
             slice_height == saturating_sub(frame.height, found.overlap)
         IN  IF ~found.ok
               THEN [st EXCEPT !.idx = @ + 1]
             ELSE IF slice_height < 10
               THEN [st EXCEPT !.idx = @ + 1]
             ELSE [st EXCEPT !.pieces = Append(@, crop_imm(frame, 0, found.overlap,
                                                           frame.width, slice_height)),
                             !.prev_frame = Some(frame),
                             !.idx = @ + 1]

\* Mutant: the preview never falls back to the last frame.
preview_pieces_seed(st) == st.pieces

\* The pieces the preview composes: the last frame alone when only frame 0
\* is left.
preview_pieces(st) ==
  IF Len(st.pieces) = 1
    THEN <<whole(st.loaded_frames[Len(st.loaded_frames)])>>
    ELSE st.pieces

\* stitch_scroll_frames_preview after its loop
preview_finish(st, save) ==
  LET pieces == preview_pieces(st)
      image == compose(pieces, st.loaded_frames[1].width)
  IN  IF save # "ok"
        THEN [result |-> StitchErr(PreviewSaveError(save)),
              file |-> SavedFile(image, save),
              locals |-> Returned([st EXCEPT !.pieces = pieces], save)]
        ELSE [result |-> StitchOk("preview/scroll-preview.png", 0, 0, 0, 0),
              file |-> SavedFile(image, save),
              locals |-> Returned([st EXCEPT !.pieces = pieces], save)]

\* The loops of the two stitchers, run from the locals st to their end.
RECURSIVE stitch_loop(_)
stitch_loop(st) ==
  IF st.idx + 1 < Len(st.loaded_frames)
    THEN stitch_loop(stitch_frame(st, NextFrame(st)))
    ELSE st

RECURSIVE preview_loop(_)
preview_loop(st) ==
  IF st.idx + 1 < Len(st.loaded_frames)
    THEN preview_loop(preview_frame(st, NextFrame(st)))
    ELSE st

\* A whole call of each stitcher on a list it does not reject, with save
\* as the outcome of saving: what the finish returns.
stitch_scroll_frames(frame_paths, save) ==
  stitch_finish(stitch_loop(stitch_enter(frame_paths).locals), Len(frame_paths), save)
stitch_scroll_frames_preview(frame_paths, save) ==
  preview_finish(preview_loop(preview_enter(frame_paths).locals), save)

(***************************************************************************)
(* The ScreenCaptureKit capture of screencapturekit.rs.                    *)
(***************************************************************************)
\* An f32 as the number of quarters it holds: the scale factors 1, 1.5 and 2
\* and every product, sum and difference the capture forms from them and
\* from small integers are whole numbers of quarters, in f32 as here.  A
\* quotient is exact when the dividend is a multiple of the divisor, which
\* the monitors of the inputs see to.
f32(n) == 4 * n
times(a, b) == (a * b) \div f32(1)
over(a, b) == (a * f32(1)) \div b

\* Mutant: the fraction is cut off.
round_down(a) == IF a < 0 THEN 0 ELSE a \div f32(1)

\* f32::round followed by `as u32`: the nearest integer, a half going away
\* from zero; a negative value, which the capture does not pass, gives 0.
round(a) == IF a < 0 THEN 0 ELSE (2 * a + f32(1)) \div (2 * f32(1))

\* struct CaptureRectInput
CaptureRectInput(x, y, width, height) ==
  [x |-> x, y |-> y, width |-> width, height |-> height]

\* A monitor as xcap reports it: its id, its position and size in physical
\* pixels and its scale factor.
Display(id, x, y, width, height, scale) ==
  [id |-> id, x |-> x, y |-> y, width |-> width, height |-> height, scale |-> scale]

\* struct MonitorGeometry, as load_monitor_geometry fills it for a monitor
MonitorGeometry(display) ==
  [id |-> display.id,
   logical_x |-> over(f32(display.x), display.scale),
   logical_y |-> over(f32(display.y), display.scale),
   logical_width |-> over(f32(display.width), display.scale),
   logical_height |-> over(f32(display.height), display.scale),
   scale |-> display.scale]

\* load_monitor_geometry(): Result<Vec<MonitorGeometry>, String>.  displays
\* is what xcap reports: error is "" when every query succeeds, else the
\* error of the first query that fails; monitors in the order of
\* Monitor::all().
load_monitor_geometry(displays) ==
  IF displays.error # ""
    THEN [ok |-> FALSE, error |-> displays.error, geometry |-> <<>>]
    ELSE [ok |-> TRUE, error |-> "",
          geometry |-> [i \in DOMAIN displays.monitors |->
                          MonitorGeometry(displays.monitors[i])]]

\* Mutant: the last monitor that holds the center is returned.
resolve_target_monitor_last(rect, monitors) ==
  LET center_x == f32(rect.x) + over(f32(rect.width), f32(2))
      center_y == f32(rect.y) + over(f32(rect.height), f32(2))
      holding == {i \in DOMAIN monitors :
                    /\ center_x >= monitors[i].logical_x
                    /\ center_x < monitors[i].logical_x + monitors[i].logical_width
                    /\ center_y >= monitors[i].logical_y
                    /\ center_y < monitors[i].logical_y + monitors[i].logical_height}
  IN  IF holding = {}
        THEN None
        ELSE Some(monitors[CHOOSE i \in holding : \A j \in holding : j <= i])

\* resolve_target_monitor(rect, monitors): Option<MonitorGeometry>, what
\* find returns: the first monitor for which the closure holds.
resolve_target_monitor(rect, monitors) ==
  LET center_x == f32(rect.x) + over(f32(rect.width), f32(2))
      center_y == f32(rect.y) + over(f32(rect.height), f32(2))
      holding == {i \in DOMAIN monitors :
                    /\ center_x >= monitors[i].logical_x
                    /\ center_x < monitors[i].logical_x + monitors[i].logical_width
                    /\ center_y >= monitors[i].logical_y
                    /\ center_y < monitors[i].logical_y + monitors[i].logical_height}
  IN  IF holding = {}
        THEN None
        ELSE Some(monitors[CHOOSE i \in holding : \A j \in holding : i <= j])

\* Result<String, String> of the capture; "Pending" while it has not returned
CaptureResult(kind, path, error) == [kind |-> kind, path |-> path, error |-> error]

\* The local variables of the capture and the files it leaves: the target
\* monitor, the crop and the clamped size, the monitor image ("none" before
\* get_monitor_screenshot has written it, "removed" after remove_file) and
\* the frame written to save_dir, as the region of the monitor image it holds.
CaptureLocals(target, crop_x, crop_y, crop_w, crop_h, final_w, final_h) ==
  [target |-> target, crop_x |-> crop_x, crop_y |-> crop_y, crop_w |-> crop_w,
   crop_h |-> crop_h, final_w |-> final_w, final_h |-> final_h,
   monitor_image |-> "none", frame |-> None]
NoCapture == CaptureLocals(None, 0, 0, 0, 0, 0, 0)

\* The errors of create_dir_all, generate_filename, save and to_str; that of
\* generate_filename is passed on as utils returns it, without a prefix.
CaptureSaveError(save) ==
  CASE save = "create_dir" -> "capture_failed:Failed to create save directory"
    [] save = "filename" -> "Failed to generate filename"
    [] save = "save" -> "capture_failed:Failed to save scroll frame"
    [] OTHER -> "capture_failed:Failed to encode output path"

\* Mutant: the size of the crop is not clamped to the monitor image.
crop_monitor_image_unclamped(rect, target, screenshot, save) ==
  LET rel_x == f32(rect.x) - target.logical_x
      rel_y == f32(rect.y) - target.logical_y
      crop_x == round(Max(times(rel_x, target.scale), f32(0)))
      crop_y == round(Max(times(rel_y, target.scale), f32(0)))
      crop_w == round(Max(times(f32(rect.width), target.scale), f32(1)))
      crop_h == round(Max(times(f32(rect.height), target.scale), f32(1)))
      max_w == saturating_sub(screenshot.width, crop_x)
      max_h == saturating_sub(screenshot.height, crop_y)
      final_w == crop_w
      final_h == crop_h
      mapped == CaptureLocals(Some(target), crop_x, crop_y, crop_w, crop_h, 0, 0)
      clamped == CaptureLocals(Some(target), crop_x, crop_y, crop_w, crop_h,
                               final_w, final_h)
  IN  IF screenshot.outcome = "unreadable"
        THEN [locals |-> CaptureLocals(Some(target), 0, 0, 0, 0, 0, 0),
              result |-> CaptureResult("Err", "", "capture_failed:Failed to read monitor image")]
      ELSE IF crop_x >= screenshot.width \/ crop_y >= screenshot.height
        THEN [locals |-> mapped,
              result |-> CaptureResult("Err", "", "capture_failed:Selected area is outside monitor bounds")]
      ELSE IF final_w < 10 \/ final_h < 10
        THEN [locals |-> clamped,
              result |-> CaptureResult("Err", "", "capture_failed:Selected area is too small")]
      ELSE IF save \in {"create_dir", "filename", "save"}
        THEN [locals |-> clamped, result |-> CaptureResult("Err", "", CaptureSaveError(save))]
      ELSE [locals |-> [clamped EXCEPT !.frame =
                          Some([x |-> crop_x, y |-> crop_y,
                                width |-> final_w, height |-> final_h])],
            result |-> IF save = "ok"
                         THEN CaptureResult("Ok", "scroll_frame.png", "")
                         ELSE CaptureResult("Err", "", CaptureSaveError(save))]

\* The closure of capture_rect_frame_screen_capture_kit: reads the monitor
\* image, maps rect to its pixels, clamps the crop to the image and saves it.
\* screenshot is what get_monitor_screenshot wrote: readable or not, and the
\* size of the bitmap.
crop_monitor_image(rect, target, screenshot, save) ==
  LET rel_x == f32(rect.x) - target.logical_x
      rel_y == f32(rect.y) - target.logical_y
      crop_x == round(Max(times(rel_x, target.scale), f32(0)))
      crop_y == round(Max(times(rel_y, target.scale), f32(0)))
      crop_w == round(Max(times(f32(rect.width), target.scale), f32(1)))
      crop_h == round(Max(times(f32(rect.height), target.scale), f32(1)))
      max_w == saturating_sub(screenshot.width, crop_x)
      max_h == saturating_sub(screenshot.height, crop_y)
      final_w == Min(crop_w, max_w)
      final_h == Min(crop_h, max_h)
      mapped == CaptureLocals(Some(target), crop_x, crop_y, crop_w, crop_h, 0, 0)
      clamped == CaptureLocals(Some(target), crop_x, crop_y, crop_w, crop_h,
                               final_w, final_h)
  IN  IF screenshot.outcome = "unreadable"
        THEN [locals |-> CaptureLocals(Some(target), 0, 0, 0, 0, 0, 0),
              result |-> CaptureResult("Err", "", "capture_failed:Failed to read monitor image")]
      ELSE IF crop_x >= screenshot.width \/ crop_y >= screenshot.height
        THEN [locals |-> mapped,
              result |-> CaptureResult("Err", "", "capture_failed:Selected area is outside monitor bounds")]
      ELSE IF final_w < 10 \/ final_h < 10
        THEN [locals |-> clamped,
              result |-> CaptureResult("Err", "", "capture_failed:Selected area is too small")]
      ELSE IF save \in {"create_dir", "filename", "save"}
        THEN [locals |-> clamped, result |-> CaptureResult("Err", "", CaptureSaveError(save))]
      ELSE [locals |-> [clamped EXCEPT !.frame =
                          Some([x |-> crop_x, y |-> crop_y,
                                width |-> final_w, height |-> final_h])],
            result |-> IF save = "ok"
                         THEN CaptureResult("Ok", "scroll_frame.png", "")
                         ELSE CaptureResult("Err", "", CaptureSaveError(save))]

\* capture_rect_frame_screen_capture_kit(app_handle, rect, save_dir):
\* [locals, result].
capture_rect_frame_screen_capture_kit(rect, displays, screenshot, save) ==
  LET monitor_geometry == load_monitor_geometry(displays)
      target == resolve_target_monitor(rect, monitor_geometry.geometry)
  IN  IF ~monitor_geometry.ok
        THEN [locals |-> NoCapture, result |-> CaptureResult("Err", "", monitor_geometry.error)]
      ELSE IF target = None
        THEN [locals |-> NoCapture,
              result |-> CaptureResult("Err", "", "capture_failed:Selected area is outside available monitors")]
      ELSE IF screenshot.outcome = "failed"
        THEN [locals |-> CaptureLocals(target, 0, 0, 0, 0, 0, 0),
              result |-> CaptureResult("Err", "", "capture_failed:Failed to capture monitor image")]
      ELSE LET cropped == crop_monitor_image(rect, target[1], screenshot, save)
           IN  [locals |-> [cropped.locals EXCEPT !.monitor_image = "removed"],
                result |-> cropped.result]

(***************************************************************************)
(* The crop region of image.rs.                                            *)
(***************************************************************************)
\* struct CropRegion
CropRegion(x, y, width, height) == [x |-> x, y |-> y, width |-> width, height |-> height]

\* Mutant: the origin is clamped to the size of the image, not to its last
\* pixel.
clamped_to_size(x, y, width, height, img_width, img_height) ==
  LET crop_x == Min(x, img_width)
      crop_y == Min(y, img_height)
      crop_width == Min(width, saturating_sub(img_width, crop_x))
      crop_height == Min(height, saturating_sub(img_height, crop_y))
  IN  CropRegion(crop_x, crop_y, crop_width, crop_height)

\* CropRegion::clamped(x, y, width, height, img_width, img_height)
clamped(x, y, width, height, img_width, img_height) ==
  LET crop_x == Min(x, saturating_sub(img_width, 1))
      crop_y == Min(y, saturating_sub(img_height, 1))
      crop_width == Min(width, saturating_sub(img_width, crop_x))
      crop_height == Min(height, saturating_sub(img_height, crop_y))
  IN  CropRegion(crop_x, crop_y, crop_width, crop_height)

(***************************************************************************)
(* Commands that run concurrently and the two mutexes of commands.rs.      *)
(***************************************************************************)
\* A command on its thread: the command, where it is ("idle" when none runs
\* or it has returned, "lock" before Mutex::lock, "locked" with the guard),
\* the frame a poll has captured and the monitor state it found under the
\* lock.
Thread(op, pc, frame, seen) ==
  [op |-> op, pc |-> pc, frame |-> frame, seen |-> seen]

\* Mutant: the mutex is given to every thread that asks.
lock_granted_always(holder) == TRUE

\* Mutex::lock returns once no thread holds the mutex; holder is the thread
\* that holds it, 0 for none.
lock_granted(holder) == holder = 0

(***************************************************************************)
(* State.                                                                  *)
(*   session     the ScrollSession value                                   *)
(*   call        the last method called on it, with its arguments and the  *)
(*               state the session was in when it was called               *)
(*   result      what that call returned                                   *)
(*   run         history of the calls since the session was made: which    *)
(*               mutating method they all were ("none" before the first,   *)
(*               "mixed" once two differ or the history is unknown), how   *)
(*               many there were and the exact sum of the heights passed   *)
(*   monitor     the value in SCROLL_MONITOR                               *)
(*   poisoned    whether a holder of SCROLL_MONITOR's lock has panicked    *)
(*   frames_dir  the frames directory: how many frame files were written   *)
(*               to it and the frame in the last of them                   *)
(*   pcall       the last scroll monitor command, with its inputs and      *)
(*               whether a previous frame was stored when it ran           *)
(*   presult     what that command returned                                *)
(*   episode     the state the last poll that returned a result reported,  *)
(*               "" when none has since the last reset                     *)
(*   scall       the stitch command that is called and its frame_paths     *)
(*   stitch      the local variables of that call                          *)
(*   sresult     what the call returned, "Pending" until it returns        *)
(*   save_dir    the image file the call wrote, if any                     *)
(*   fcall       the function on two frames that is called, and the frames  *)
(*   fresult     what it returned, "Pending" until it returns              *)
(*   ccall       the inputs of a call of                                   *)
(*               capture_rect_frame_screen_capture_kit                     *)
(*   capture     the local variables of that call and the files it left    *)
(*   cresult     what the call returned, "Pending" until it returns        *)
(*   rcall       the arguments of a call of CropRegion::clamped            *)
(*   region      what the call returned, None until it returns             *)
(*   threads     the commands that run concurrently, one per thread: the   *)
(*               command, where it is, and its local variables             *)
(*   locks       the thread that holds SCROLL_MONITOR and the thread that  *)
(*               holds SCREENCAPTURE_LOCK, 0 for none                      *)
(*   children    the threads whose screencapture child process is running  *)
(*   counts      the frame_count of each "captured" result returned since  *)
(*               the last reset, in the order of the results               *)
(***************************************************************************)
VARIABLES session, call, result, run, monitor, poisoned, frames_dir, pcall, presult,
          episode,
          scall, stitch, sresult, save_dir, fcall, fresult, ccall, capture, cresult,
          rcall, region, threads, locks, children, counts

sessionVars == <<session, call, result, run>>
pollVars == <<monitor, poisoned, frames_dir, pcall, presult, episode>>
stitchVars == <<scall, stitch, sresult, save_dir>>
frameVars == <<fcall, fresult>>
captureVars == <<ccall, capture, cresult>>
regionVars == <<rcall, region>>
threadVars == <<threads, locks, children, counts>>
vars == <<session, call, result, run, monitor, poisoned, frames_dir, pcall, presult,
          episode,
          scall, stitch, sresult, save_dir, fcall, fresult, ccall, capture, cresult,
          rcall, region, threads, locks, children, counts>>

Call(op, added_height, score, before) ==
  [op |-> op, added_height |-> added_height, score |-> score, before |-> before]
NoArgs(op, before) == Call(op, 0, 0, before)

\* How many calls of one kind run counts before it stops counting.
MaxCounted == U8_MAX + 1

NoRun == [only |-> "none", calls |-> 0, sum |-> 0]
MixedRun == [only |-> "mixed", calls |-> 0, sum |-> 0]

RunAfter(r, op, added_height) ==
  IF r.only \in {"none", op}
    THEN [only |-> op,
          calls |-> Min(r.calls + 1, MaxCounted),
          sum |-> r.sum + added_height]
    ELSE MixedRun

\* Inputs of the scroll monitor commands.  The rectangles are two that are
\* too small and one that validates; the capture either fails (in the
\* backend, or reading back the file it wrote) or delivers a frame; the frames come in two sizes and three contents, of
\* which the first two differ by less than the change threshold and the
\* third differs from the first by more.
Rect(width, height) == [x |-> 0, y |-> 0, width |-> width, height |-> height]
Rects == {Rect(9, 10), Rect(10, 9), Rect(10, 10)}
PollFrames ==
  {build_frame(w, 10, start) : w \in {10, 12}, start \in {0, 1, 3}}
CaptureErrors ==
  {"permission:Screen Recording permission required",
   "capture_failed:Selected area is outside available monitors",
   "Failed to read captured frame"}
PollCall(op, rect, frame, save, had_prev) ==
  [op |-> op, rect |-> rect, frame |-> frame, save |-> save, had_prev |-> had_prev]
NoPollArgs(op) == PollCall(op, Rect(0, 0), None, "", FALSE)

\* Result<(), String> of reset_scroll_monitor
ResetOk == PollOk("", None, 0)

\* The model stops before frame_count and the number of files grow without
\* bound.
MaxFrameCount == 2
MaxFiles == 3

\* Inputs of the stitch commands.  The frames are 20 pixels wide, but for
\* one of 19.  The four 66 rows high are a page scrolled by 0, 1, 42 and 82
\* rows: the search has the overlaps 24 and 26 to choose from, finds 24
\* from 0 to 42 and 26 from 42 to 82, and fails from 42 back to 0.  The
\* two 34 rows high leave exactly 10 rows below the only overlap, 24; the
\* two 33 rows high leave 9.  A path whose file cannot be read is None.
StitchFrames ==
  {build_frame(20, 66, 0), build_frame(20, 66, 1), build_frame(20, 66, 42),
   build_frame(20, 66, 82),
   build_frame(20, 34, 0), build_frame(20, 34, 10),
   build_frame(20, 33, 0), build_frame(20, 33, 9),
   build_frame(19, 66, 0)}
StitchPaths == {Some(frame) : frame \in StitchFrames} \cup {None}

\* The longest list of paths drawn from StitchPaths.
MaxStitchFrames == 3

\* Lists of exactly MAX_SCROLL_FRAMES paths and of one more: two frames that
\* stitch, then copies of the second.
LongList(n) ==
  [i \in 1..n |-> IF i = 1 THEN Some(build_frame(20, 66, 0))
                           ELSE Some(build_frame(20, 66, 42))]

\* A list of n > MAX_SCROLL_FRAMES paths whose last MAX_SCROLL_FRAMES are a
\* scroll of their own: the frame scrolled by 42 rows, then copies of the
\* one scrolled by 82; before them, copies of the unscrolled frame.
LongScroll(n) ==
  [i \in 1..n |-> IF i <= n - MAX_SCROLL_FRAMES THEN Some(build_frame(20, 66, 0))
                  ELSE IF i = n - MAX_SCROLL_FRAMES + 1 THEN Some(build_frame(20, 66, 42))
                  ELSE Some(build_frame(20, 66, 82))]

\* Pairs of frames 80 rows high, the second the first scrolled by dy rows.
\* The search has the overlaps 24, 26, ... 40 to choose from, so the scrolls
\* it can match exactly are those by 40 to 56 rows.  With the start value
\* 200 the generator wraps around inside the frames.
ScrollDeltas == {1, 3, 39, 40, 41, 47, 56, 57, 80}
\* Also pairs 22 rows high, where the only overlap the search tries is 21.
ScrollPairs ==
  {<<Some(build_frame(20, 80, start)), Some(build_frame(20, 80, start + dy))>> :
     start \in {0, 200}, dy \in ScrollDeltas}
    \cup {<<Some(build_frame(20, 22, 0)), Some(build_frame(20, 22, dy))>> : dy \in {1, 3}}

StitchInputs ==
  UNION {[1..n -> StitchPaths] : n \in 0..MaxStitchFrames}
    \cup {LongList(MAX_SCROLL_FRAMES), LongList(MAX_SCROLL_FRAMES + 1),
          LongScroll(MAX_SCROLL_FRAMES + 2)}
    \cup ScrollPairs

StitchCommands == {"stitch_scroll_frames", "stitch_scroll_frames_preview"}
StitchCall(op, frame_paths) == [op |-> op, frame_paths |-> frame_paths]

\* No stitch command is called.
StitchIdle ==
  /\ scall = StitchCall("none", <<>>)
  /\ stitch = NoStitch
  /\ sresult = StitchPending
  /\ save_dir = None

\* Inputs of the functions on two frames.  The frames of a pair have one
\* size, the second being the first scrolled by dy rows.  The sizes: one row
\* and two rows, one column, no rows at all; 25 rows, where the search has
\* the one candidate 24; 66 and 80 rows as in the stitches.  The scrolls by
\* 51 and 52 rows leave 25-row frames 50 and 51 rows apart at overlap 24,
\* which is an error just under and just over MAX_SCROLL_MATCH_ERROR.
FrameSizes == {<<20, 0>>, <<20, 1>>, <<20, 2>>, <<1, 66>>, <<20, 25>>, <<20, 66>>, <<20, 80>>}
FrameDeltas == {0, 1, 3, 39, 40, 41, 47, 51, 52, 56, 57, 80}
\* Frames 120 rows high, with 29 candidates, on a few scrolls only.
TallDeltas == {40, 41, 96}
\* Frames of two sizes: sample_frame_difference is not kept from them.
UnequalPairs ==
  {<<build_frame(12, 10, 0), build_frame(10, 10, 0)>>,
   <<build_frame(10, 12, 0), build_frame(10, 10, 0)>>,
   <<build_frame(10, 10, 0), build_frame(12, 12, 0)>>}
FramePairs ==
  {<<build_frame(size[1], size[2], start), build_frame(size[1], size[2], start + dy)>> :
     size \in FrameSizes, start \in {0, 200}, dy \in FrameDeltas}
    \cup {<<build_frame(20, 120, 0), build_frame(20, 120, dy)>> : dy \in TallDeltas}
FrameCall(op, prev, current) == [op |-> op, prev |-> prev, current |-> current]

\* What a function on two frames returned: "Returned" with the score of
\* sample_frame_difference or the Result of find_best_overlap, or "Panic".
FrameResult(kind, score, found) == [kind |-> kind, score |-> score, found |-> found]
FramePending == FrameResult("Pending", Fraction(0, 1), OverlapErr(""))

\* No function on frames is called.
FrameIdle ==
  /\ fcall = FrameCall("none", build_frame(0, 0, 0), build_frame(0, 0, 0))
  /\ fresult = FramePending

\* Inputs of the capture.  The monitors: one of scale 1 with the logical
\* bounds 0..30 by 0..20, one of scale 2 with the same logical bounds (a
\* mirror of it), one of scale 1.5 to the right of them and one of scale 1
\* to the left, at a negative origin (id 4); their physical positions and sizes are
\* multiples of their scale factors.
Primary == Display(1, 0, 0, 30, 20, f32(1))
Mirror == Display(2, 0, 0, 60, 40, f32(2))
RightOf == Display(3, 45, 0, 45, 30, over(f32(3), f32(2)))
Layouts ==
  {<<>>, <<Primary>>, <<Mirror>>, <<RightOf>>, <<Primary, RightOf>>,
   <<Display(4, -30, 0, 30, 20, f32(1)), Primary>>, <<Primary, Mirror>>,
   <<Mirror, Primary>>}

\* The rectangles: centers left of, right of, above and inside the monitors
\* and on their edges (x = 25 with width 10 and x = 24 with width 11 are
\* centered at 30 and at 29.5; y = 15 with height 10 is centered at 20).
CaptureRects ==
  {CaptureRectInput(x, y, width, height) :
     x \in {-35, -5, 0, 5, 15, 20, 24, 25, 33, 55}, y \in {-5, 0, 5, 10, 15},
     width \in {10, 11, 20}, height \in {10, 11}}

\* What get_monitor_screenshot left: nothing ("failed"), a file that is not
\* an image ("unreadable"), or a bitmap of the size of a monitor or smaller.
Screenshot(outcome, width, height) ==
  [outcome |-> outcome, width |-> width, height |-> height]
Bitmaps == {Screenshot("ok", size[1], size[2]) :
              size \in {<<60, 40>>, <<45, 30>>, <<30, 20>>, <<25, 15>>}}

CaptureCall(op, rect, displays, screenshot, save) ==
  [op |-> op, rect |-> rect, displays |-> displays, screenshot |-> screenshot,
   save |-> save]

\* The calls: every rectangle on every layout and bitmap with nothing
\* failing; a few rectangles with each failure; rectangles without width or
\* height and narrow ones (6 and 7 wide are 9 and 10.5 pixels at scale 1.5);
\* and a monitor of scale 2 at the origin, large enough for the rectangle 100
\* by 50 at (10, 20).
CaptureCalls ==
  {CaptureCall("capture_rect_frame_screen_capture_kit", rect,
               [error |-> "", monitors |-> layout], bitmap, "ok") :
     rect \in CaptureRects, layout \in Layouts, bitmap \in Bitmaps}
    \cup {CaptureCall("capture_rect_frame_screen_capture_kit",
                      CaptureRectInput(x, 5, 10, 10), displays, screenshot, save) :
            x \in {5, 33},
            displays \in {[error |-> error, monitors |-> <<Primary, RightOf>>] :
                            error \in {"", "Failed to query monitors",
                                       "Failed to get monitor scale factor for 1"}},
            screenshot \in Bitmaps \cup {Screenshot("failed", 0, 0),
                                         Screenshot("unreadable", 0, 0)},
            save \in SaveOutcomes}
    \cup {CaptureCall("capture_rect_frame_screen_capture_kit",
                      CaptureRectInput(x, 5, width, height),
                      [error |-> "", monitors |-> <<Primary, RightOf>>], bitmap, "ok") :
            x \in {5, 33}, width \in {0, 1, 6, 7}, height \in {0, 10},
            bitmap \in Bitmaps}
    \cup {CaptureCall("capture_rect_frame_screen_capture_kit",
                      CaptureRectInput(10, 20, 100, 50),
                      [error |-> "", monitors |-> <<Display(5, 0, 0, 240, 160, f32(2))>>],
                      Screenshot("ok", 240, 160), "ok")}

\* capture_rect_frame_screen_capture_kit is not called.
CaptureIdle ==
  /\ ccall = CaptureCall("none", CaptureRectInput(0, 0, 0, 0),
                         [error |-> "", monitors |-> <<>>],
                         Screenshot("failed", 0, 0), "")
  /\ capture = NoCapture
  /\ cresult = CaptureResult("Pending", "", "")

\* The calls of CropRegion::clamped: every region with coordinates and sizes
\* up to MaxRegion on every image up to MaxImage wide and high, the image
\* without pixels included.
MaxRegion == 4
MaxImage == 3
RegionCall(op, x, y, width, height, img_width, img_height) ==
  [op |-> op, x |-> x, y |-> y, width |-> width, height |-> height,
   img_width |-> img_width, img_height |-> img_height]
RegionCalls ==
  {RegionCall("clamped", x, y, width, height, img_width, img_height) :
     x \in 0..MaxRegion, y \in 0..MaxRegion, width \in 0..MaxRegion,
     height \in 0..MaxRegion, img_width \in 0..MaxImage, img_height \in 0..MaxImage}

\* CropRegion::clamped is not called.
RegionIdle ==
  /\ rcall = RegionCall("none", 0, 0, 0, 0, 0, 0)
  /\ region = None

\* The threads of the concurrent commands, and the polls a behaviour of them
\* may save.
MaxThreads == 2
ThreadIds == 1..MaxThreads
NoThread == Thread("none", "idle", None, None)
MonitorFrames == {build_frame(10, 10, 0), build_frame(10, 10, 3), build_frame(12, 10, 0)}

\* No thread runs a command.
ThreadsIdle ==
  /\ threads = <<>>
  /\ locks = [monitor |-> 0, screencapture |-> 0]
  /\ children = {}
  /\ counts = <<>>

\* static SCROLL_MONITOR: Mutex<Option<ScrollMonitorState>> = Mutex::new(None)
PollInit ==
  /\ monitor = None
  /\ poisoned = FALSE
  /\ frames_dir = [count |-> 0, last |-> None]
  /\ pcall = NoPollArgs("start")
  /\ presult = ResetOk
  /\ episode = ""

\* let session = ScrollSession::new(config)
SessionInit ==
  /\ \E config \in Configs : session = new(config)
  /\ call = NoArgs("new", "Ready")
  /\ result = Unit
  /\ run = NoRun

Init ==
  SessionInit /\ PollInit /\ StitchIdle /\ FrameIdle /\ CaptureIdle /\ RegionIdle
    /\ ThreadsIdle

\* A session value read back through its Deserialize implementation: any
\* field values of the right types.
RestoredFailures == {0, 1, U8_MAX - 1, U8_MAX}
RestoredConfigs == {Config(MidHeight, 2, 2), Config(U32_MAX, FramesCap + 1, 2)}
InitAny ==
  /\ session \in [state : ScrollSessionState,
                  config : RestoredConfigs,
                  frames : 0..FramesCap,
                  captured_height_px : 0..U32_MAX,
                  consecutive_failures : RestoredFailures]
  /\ call = NoArgs("deserialize", session.state)
  /\ result = Unit
  /\ run = MixedRun
  /\ PollInit
  /\ StitchIdle
  /\ FrameIdle
  /\ CaptureIdle
  /\ RegionIdle
  /\ ThreadsIdle

\* The scroll monitor alone: it does not use ScrollSession.
InitPoll ==
  /\ session = new(Config(MidHeight, 2, 2))
  /\ call = NoArgs("new", "Ready")
  /\ result = Unit
  /\ run = NoRun
  /\ PollInit
  /\ StitchIdle
  /\ FrameIdle
  /\ CaptureIdle
  /\ RegionIdle
  /\ ThreadsIdle

\* One call of a stitch command on a list of paths; the stitchers use
\* neither ScrollSession nor the scroll monitor.
InitStitch ==
  /\ session = new(Config(MidHeight, 2, 2))
  /\ call = NoArgs("new", "Ready")
  /\ result = Unit
  /\ run = NoRun
  /\ PollInit
  /\ scall \in {StitchCall(op, frame_paths) :
                  op \in StitchCommands, frame_paths \in StitchInputs}
  /\ stitch = NoStitch
  /\ sresult = StitchPending
  /\ save_dir = None
  /\ FrameIdle
  /\ CaptureIdle
  /\ RegionIdle
  /\ ThreadsIdle

\* One call of sample_frame_difference or find_best_overlap on a pair of
\* frames; find_best_overlap is called on frames of one size only.
InitFrames ==
  /\ session = new(Config(MidHeight, 2, 2))
  /\ call = NoArgs("new", "Ready")
  /\ result = Unit
  /\ run = NoRun
  /\ PollInit
  /\ StitchIdle
  /\ fcall \in {FrameCall("sample_frame_difference", pair[1], pair[2]) :
                  pair \in FramePairs \cup UnequalPairs}
               \cup {FrameCall("find_best_overlap", pair[1], pair[2]) :
                       pair \in FramePairs}
  /\ fresult = FramePending
  /\ CaptureIdle
  /\ RegionIdle
  /\ ThreadsIdle

\* One call of capture_rect_frame_screen_capture_kit.
InitCapture ==
  /\ session = new(Config(MidHeight, 2, 2))
  /\ call = NoArgs("new", "Ready")
  /\ result = Unit
  /\ run = NoRun
  /\ PollInit
  /\ StitchIdle
  /\ FrameIdle
  /\ ccall \in CaptureCalls
  /\ capture = NoCapture
  /\ cresult = CaptureResult("Pending", "", "")
  /\ RegionIdle
  /\ ThreadsIdle

\* Threads that call poll_scroll_region and reset_scroll_monitor as they
\* like, on the monitor as the program starts with it.
InitMonitor ==
  /\ session = new(Config(MidHeight, 2, 2))
  /\ call = NoArgs("new", "Ready")
  /\ result = Unit
  /\ run = NoRun
  /\ PollInit
  /\ StitchIdle
  /\ FrameIdle
  /\ CaptureIdle
  /\ RegionIdle
  /\ threads = [t \in ThreadIds |-> NoThread]
  /\ locks = [monitor |-> 0, screencapture |-> 0]
  /\ children = {}
  /\ counts = <<>>

\* The commands that start a screencapture process.
Commands ==
  {"native_capture_interactive", "native_capture_fullscreen", "native_capture_window",
   "native_capture_ocr_region", "capture_rect_frame_cli"}

\* Threads that call the commands that start screencapture as they like;
\* no process of the program runs yet.
InitScreencapture ==
  /\ session = new(Config(MidHeight, 2, 2))
  /\ call = NoArgs("new", "Ready")
  /\ result = Unit
  /\ run = NoRun
  /\ PollInit
  /\ StitchIdle
  /\ FrameIdle
  /\ CaptureIdle
  /\ RegionIdle
  /\ threads = [t \in ThreadIds |-> NoThread]
  /\ locks = [monitor |-> 0, screencapture |-> 0]
  /\ children = {}
  /\ counts = <<>>

\* One call of CropRegion::clamped.
InitRegion ==
  /\ session = new(Config(MidHeight, 2, 2))
  /\ call = NoArgs("new", "Ready")
  /\ result = Unit
  /\ run = NoRun
  /\ PollInit
  /\ StitchIdle
  /\ FrameIdle
  /\ CaptureIdle
  /\ rcall \in RegionCalls
  /\ region = None
  /\ ThreadsIdle

MarkCapturing ==
  /\ session' = mark_capturing(session)
  /\ call' = NoArgs("mark_capturing", session.state)
  /\ result' = Unit
  /\ run' = MixedRun
  /\ UNCHANGED pollVars
  /\ UNCHANGED stitchVars
  /\ UNCHANGED frameVars
  /\ UNCHANGED captureVars
  /\ UNCHANGED regionVars
  /\ UNCHANGED threadVars

AppendAccepted ==
  /\ session.frames < FramesCap
  /\ \E added_height \in AddedHeights, score \in Scores :
       LET r == append_accepted(session, added_height, score)
       IN  /\ session' = r.session
           /\ result' = r.result
           /\ call' = Call("append_accepted", added_height, score, session.state)
           /\ run' = RunAfter(run, "append_accepted", added_height)
  /\ UNCHANGED pollVars
  /\ UNCHANGED stitchVars
  /\ UNCHANGED frameVars
  /\ UNCHANGED captureVars
  /\ UNCHANGED regionVars
  /\ UNCHANGED threadVars

AppendFailed ==
  /\ LET r == append_failed(session)
     IN  /\ session' = r.session
         /\ result' = r.result
         /\ call' = NoArgs("append_failed", session.state)
         /\ run' = RunAfter(run, "append_failed", 0)
  /\ UNCHANGED pollVars
  /\ UNCHANGED stitchVars
  /\ UNCHANGED frameVars
  /\ UNCHANGED captureVars
  /\ UNCHANGED regionVars
  /\ UNCHANGED threadVars

Cancel ==
  /\ session' = cancel(session)
  /\ call' = NoArgs("cancel", session.state)
  /\ result' = Unit
  /\ run' = MixedRun
  /\ UNCHANGED pollVars
  /\ UNCHANGED stitchVars
  /\ UNCHANGED frameVars
  /\ UNCHANGED captureVars
  /\ UNCHANGED regionVars
  /\ UNCHANGED threadVars

\* progress() takes &self: it reads the session and leaves it alone, so the
\* history of mutating calls is not interrupted by it.
Progress ==
  /\ result' = progress(session)
  /\ call' = NoArgs("progress", session.state)
  /\ UNCHANGED <<session, run>>
  /\ UNCHANGED pollVars
  /\ UNCHANGED stitchVars
  /\ UNCHANGED frameVars
  /\ UNCHANGED captureVars
  /\ UNCHANGED regionVars
  /\ UNCHANGED threadVars

\* reset_scroll_monitor(): lock (an error when the lock is poisoned), then
\* store a fresh state.
ResetScrollMonitor ==
  /\ pcall' = NoPollArgs("reset_scroll_monitor")
  /\ IF poisoned
       THEN /\ presult' = PollErr("Failed to acquire monitor lock")
            /\ UNCHANGED monitor
       ELSE /\ presult' = ResetOk
            /\ monitor' = Some(NewScrollMonitorState)
  /\ episode' = IF presult'.kind = "Ok" THEN "" ELSE episode
  /\ UNCHANGED <<poisoned, frames_dir>>
  /\ UNCHANGED sessionVars
  /\ UNCHANGED stitchVars
  /\ UNCHANGED frameVars
  /\ UNCHANGED captureVars
  /\ UNCHANGED regionVars
  /\ UNCHANGED threadVars

\* Whether the monitor holds a previous frame.
HasPrev(mon) == mon # None /\ mon[1].prev_frame # None

\* poll_scroll_region(rect, frames_dir): validate the rectangle, capture the
\* region, lock SCROLL_MONITOR, then compare and update.  The backend fails
\* with an error or delivers a frame; save is how saving the frame goes when
\* this call saves it.
PollScrollRegion ==
  /\ \E rect \in Rects :
       IF ~validate_rect(rect)
         THEN /\ pcall' = PollCall("poll_scroll_region", rect, None, "", HasPrev(monitor))
              /\ presult' = PollErr("Capture area is too small")
              /\ UNCHANGED <<monitor, poisoned, frames_dir>>
         ELSE \/ \E error \in CaptureErrors :
                   /\ pcall' = PollCall("poll_scroll_region", rect, None, "",
                                        HasPrev(monitor))
                   /\ presult' = PollErr(error)
                   /\ UNCHANGED <<monitor, poisoned, frames_dir>>
              \/ \E current \in PollFrames :
                   IF poisoned
                     THEN /\ pcall' = PollCall("poll_scroll_region", rect,
                                               Some(current), "", HasPrev(monitor))
                          /\ presult' = PollErr("Failed to acquire monitor lock")
                          /\ UNCHANGED <<monitor, poisoned, frames_dir>>
                     ELSE \E diff \in {poll_difference(monitor, current)} :
                          \E save \in IF poll_saves(monitor, diff)
                                        THEN SaveOutcomes ELSE {""} :
                            LET r == poll_locked(monitor, current, diff, save, frames_dir)
                            IN  /\ r.state.frame_count <= MaxFrameCount
                                /\ r.dir.count <= MaxFiles
                                /\ pcall' = PollCall("poll_scroll_region", rect,
                                                     Some(current), save, HasPrev(monitor))
                                /\ monitor' = Some(r.state)
                                /\ frames_dir' = r.dir
                                /\ presult' = r.result
                                /\ poisoned' = (r.result.kind = "Panic")
  /\ episode' = IF presult'.kind = "Ok" THEN presult'.state ELSE episode
  /\ UNCHANGED sessionVars
  /\ UNCHANGED stitchVars
  /\ UNCHANGED frameVars
  /\ UNCHANGED captureVars
  /\ UNCHANGED regionVars
  /\ UNCHANGED threadVars

\* stitch_scroll_frames(frame_paths, save_dir) up to its loop: the checks
\* on the list, loading the frames, the checks on their sizes.
StitchScrollFrames ==
  /\ scall.op = "stitch_scroll_frames"
  /\ stitch.pc = "call"
  /\ LET r == stitch_enter(scall.frame_paths)
     IN  /\ stitch' = r.locals
         /\ sresult' = IF r.error = "" THEN StitchPending ELSE StitchErr(r.error)
  /\ UNCHANGED <<scall, save_dir>>
  /\ UNCHANGED sessionVars
  /\ UNCHANGED pollVars
  /\ UNCHANGED frameVars
  /\ UNCHANGED captureVars
  /\ UNCHANGED regionVars
  /\ UNCHANGED threadVars

\* One pass of its loop.
StitchFrame ==
  /\ scall.op = "stitch_scroll_frames"
  /\ stitch.pc = "loop"
  /\ stitch.idx + 1 < Len(stitch.loaded_frames)
  /\ stitch' = stitch_frame(stitch, NextFrame(stitch))
  /\ UNCHANGED <<scall, sresult, save_dir>>
  /\ UNCHANGED sessionVars
  /\ UNCHANGED pollVars
  /\ UNCHANGED frameVars
  /\ UNCHANGED captureVars
  /\ UNCHANGED regionVars
  /\ UNCHANGED threadVars

\* The rest of it: the check on the number of pieces, the composite, saving
\* it.  save is how saving goes when it is reached.
StitchFinish ==
  /\ scall.op = "stitch_scroll_frames"
  /\ stitch.pc = "loop"
  /\ stitch.idx + 1 = Len(stitch.loaded_frames)
  /\ \E save \in IF Len(stitch.pieces) < 2 THEN {""} ELSE StitchSaveOutcomes :
       LET r == stitch_finish(stitch, Len(scall.frame_paths), save)
       IN  /\ stitch' = r.locals
           /\ sresult' = r.result
           /\ save_dir' = r.file
  /\ UNCHANGED scall
  /\ UNCHANGED sessionVars
  /\ UNCHANGED pollVars
  /\ UNCHANGED frameVars
  /\ UNCHANGED captureVars
  /\ UNCHANGED regionVars
  /\ UNCHANGED threadVars

\* stitch_scroll_frames_preview(frame_paths, session_dir), in the same three
\* steps.
PreviewScrollFrames ==
  /\ scall.op = "stitch_scroll_frames_preview"
  /\ stitch.pc = "call"
  /\ LET r == preview_enter(scall.frame_paths)
     IN  /\ stitch' = r.locals
         /\ sresult' = IF r.error = "" THEN StitchPending ELSE StitchErr(r.error)
  /\ UNCHANGED <<scall, save_dir>>
  /\ UNCHANGED sessionVars
  /\ UNCHANGED pollVars
  /\ UNCHANGED frameVars
  /\ UNCHANGED captureVars
  /\ UNCHANGED regionVars
  /\ UNCHANGED threadVars

PreviewFrame ==
  /\ scall.op = "stitch_scroll_frames_preview"
  /\ stitch.pc = "loop"
  /\ stitch.idx + 1 < Len(stitch.loaded_frames)
  /\ stitch' = preview_frame(stitch, NextFrame(stitch))
  /\ UNCHANGED <<scall, sresult, save_dir>>
  /\ UNCHANGED sessionVars
  /\ UNCHANGED pollVars
  /\ UNCHANGED frameVars
  /\ UNCHANGED captureVars
  /\ UNCHANGED regionVars
  /\ UNCHANGED threadVars

PreviewFinish ==
  /\ scall.op = "stitch_scroll_frames_preview"
  /\ stitch.pc = "loop"
  /\ stitch.idx + 1 = Len(stitch.loaded_frames)
  /\ \E save \in PreviewSaveOutcomes :
       LET r == preview_finish(stitch, save)
       IN  /\ stitch' = r.locals
           /\ sresult' = r.result
           /\ save_dir' = r.file
  /\ UNCHANGED scall
  /\ UNCHANGED sessionVars
  /\ UNCHANGED pollVars
  /\ UNCHANGED frameVars
  /\ UNCHANGED captureVars
  /\ UNCHANGED regionVars
  /\ UNCHANGED threadVars

\* sample_frame_difference(prev, current)
SampleFrameDifference ==
  /\ fcall.op = "sample_frame_difference"
  /\ fresult.kind = "Pending"
  /\ \E diff \in {sample_frame_difference(fcall.prev, fcall.current)} :
       fresult' = FrameResult(IF diff.panic THEN "Panic" ELSE "Returned",
                              diff.score, OverlapErr(""))
  /\ UNCHANGED fcall
  /\ UNCHANGED sessionVars
  /\ UNCHANGED pollVars
  /\ UNCHANGED stitchVars
  /\ UNCHANGED captureVars
  /\ UNCHANGED regionVars
  /\ UNCHANGED threadVars

\* find_best_overlap(prev, current)
FindBestOverlap ==
  /\ fcall.op = "find_best_overlap"
  /\ fresult.kind = "Pending"
  /\ \E found \in {find_best_overlap(fcall.prev, fcall.current)} :
       fresult' = FrameResult("Returned", found.error, found)
  /\ UNCHANGED fcall
  /\ UNCHANGED sessionVars
  /\ UNCHANGED pollVars
  /\ UNCHANGED stitchVars
  /\ UNCHANGED captureVars
  /\ UNCHANGED regionVars
  /\ UNCHANGED threadVars

\* capture_rect_frame_screen_capture_kit(app_handle, rect, save_dir)
CaptureRectFrameScreenCaptureKit ==
  /\ ccall.op = "capture_rect_frame_screen_capture_kit"
  /\ cresult.kind = "Pending"
  /\ \E r \in {capture_rect_frame_screen_capture_kit(ccall.rect, ccall.displays,
                                                     ccall.screenshot, ccall.save)} :
       /\ capture' = r.locals
       /\ cresult' = r.result
  /\ UNCHANGED ccall
  /\ UNCHANGED sessionVars
  /\ UNCHANGED pollVars
  /\ UNCHANGED stitchVars
  /\ UNCHANGED frameVars
  /\ UNCHANGED regionVars
  /\ UNCHANGED threadVars

\* CropRegion::clamped(x, y, width, height, img_width, img_height)
Clamped ==
  /\ rcall.op = "clamped"
  /\ region = None
  /\ region' = Some(clamped(rcall.x, rcall.y, rcall.width, rcall.height,
                             rcall.img_width, rcall.img_height))
  /\ UNCHANGED rcall
  /\ UNCHANGED sessionVars
  /\ UNCHANGED pollVars
  /\ UNCHANGED stitchVars
  /\ UNCHANGED frameVars
  /\ UNCHANGED captureVars
  /\ UNCHANGED threadVars

\* poll_scroll_region on thread t up to SCROLL_MONITOR.lock(): the rectangle
\* is validated and the frame captured; either can fail, which returns.
PollEnter(t) ==
  /\ threads[t].pc = "idle"
  /\ \/ \E rect \in Rects :
          /\ ~validate_rect(rect)
          /\ threads' = [threads EXCEPT ![t] =
                           Thread("poll_scroll_region", "idle", None, None)]
          /\ presult' = PollErr("Capture area is too small")
     \/ \E error \in CaptureErrors :
          /\ threads' = [threads EXCEPT ![t] =
                           Thread("poll_scroll_region", "idle", None, None)]
          /\ presult' = PollErr(error)
     \/ \E current \in MonitorFrames :
          /\ threads' = [threads EXCEPT ![t] =
                           Thread("poll_scroll_region", "lock", Some(current), None)]
          /\ UNCHANGED presult
  /\ UNCHANGED <<monitor, poisoned, frames_dir, pcall, episode>>
  /\ UNCHANGED <<locks, children, counts>>
  /\ UNCHANGED sessionVars
  /\ UNCHANGED stitchVars
  /\ UNCHANGED frameVars
  /\ UNCHANGED captureVars
  /\ UNCHANGED regionVars

\* reset_scroll_monitor is called on thread t.
ResetEnter(t) ==
  /\ threads[t].pc = "idle"
  /\ threads' = [threads EXCEPT ![t] =
                   Thread("reset_scroll_monitor", "lock", None, None)]
  /\ UNCHANGED <<locks, children, counts>>
  /\ UNCHANGED sessionVars
  /\ UNCHANGED pollVars
  /\ UNCHANGED stitchVars
  /\ UNCHANGED frameVars
  /\ UNCHANGED captureVars
  /\ UNCHANGED regionVars

\* SCROLL_MONITOR.lock() on thread t: with the mutex poisoned the command
\* returns the error and the guard is dropped; else the thread has the guard
\* and through it the monitor state.
LockMonitor(t) ==
  /\ threads[t].op \in {"poll_scroll_region", "reset_scroll_monitor"}
  /\ threads[t].pc = "lock"
  /\ lock_granted(locks.monitor)
  /\ IF poisoned
       THEN /\ threads' = [threads EXCEPT ![t] =
                             Thread(threads[t].op, "idle", None, None)]
            /\ presult' = PollErr("Failed to acquire monitor lock")
            /\ UNCHANGED locks
       ELSE /\ threads' = [threads EXCEPT ![t].pc = "locked", ![t].seen = Some(monitor)]
            /\ locks' = [locks EXCEPT !.monitor = t]
            /\ UNCHANGED presult
  /\ UNCHANGED <<monitor, poisoned, frames_dir, pcall, episode>>
  /\ UNCHANGED <<children, counts>>
  /\ UNCHANGED sessionVars
  /\ UNCHANGED stitchVars
  /\ UNCHANGED frameVars
  /\ UNCHANGED captureVars
  /\ UNCHANGED regionVars

\* poll_scroll_region on thread t from the lock to its return, where the
\* guard is dropped: it works on the state it has through the guard.
PollLocked(t) ==
  /\ threads[t].op = "poll_scroll_region"
  /\ threads[t].pc = "locked"
  /\ LET current == threads[t].frame[1]
         seen == threads[t].seen[1]
     IN  \E diff \in {poll_difference(seen, current)} :
         \E save \in IF poll_saves(seen, diff) THEN SaveOutcomes ELSE {""} :
           LET r == poll_locked(seen, current, diff, save, frames_dir)
           IN  /\ r.state.frame_count <= MaxFrameCount
               /\ r.dir.count <= MaxFiles
               /\ monitor' = Some(r.state)
               /\ frames_dir' = r.dir
               /\ poisoned' = (r.result.kind = "Panic")
               /\ presult' = r.result
               /\ threads' = [threads EXCEPT ![t] =
                                Thread("poll_scroll_region", "idle", None, None)]
               /\ counts' = IF r.result.kind = "Ok" /\ r.result.state = "captured"
                              THEN Append(counts, r.result.frame_count)
                              ELSE counts
  /\ locks' = [locks EXCEPT !.monitor = IF @ = t THEN 0 ELSE @]
  /\ UNCHANGED <<pcall, episode, children>>
  /\ UNCHANGED sessionVars
  /\ UNCHANGED stitchVars
  /\ UNCHANGED frameVars
  /\ UNCHANGED captureVars
  /\ UNCHANGED regionVars

\* reset_scroll_monitor on thread t from the lock to its return.
ResetLocked(t) ==
  /\ threads[t].op = "reset_scroll_monitor"
  /\ threads[t].pc = "locked"
  /\ monitor' = Some(NewScrollMonitorState)
  /\ presult' = ResetOk
  /\ threads' = [threads EXCEPT ![t] =
                   Thread("reset_scroll_monitor", "idle", None, None)]
  /\ counts' = <<>>
  /\ locks' = [locks EXCEPT !.monitor = IF @ = t THEN 0 ELSE @]
  /\ UNCHANGED <<poisoned, frames_dir, pcall, episode, children>>
  /\ UNCHANGED sessionVars
  /\ UNCHANGED stitchVars
  /\ UNCHANGED frameVars
  /\ UNCHANGED captureVars
  /\ UNCHANGED regionVars

\* One of the commands that start screencapture is called on thread t.
CommandEnter(t) ==
  /\ threads[t].pc = "idle"
  /\ \E op \in Commands :
       threads' = [threads EXCEPT ![t] = Thread(op, "lock", None, None)]
  /\ UNCHANGED <<locks, children, counts>>
  /\ UNCHANGED sessionVars
  /\ UNCHANGED pollVars
  /\ UNCHANGED stitchVars
  /\ UNCHANGED frameVars
  /\ UNCHANGED captureVars
  /\ UNCHANGED regionVars

\* SCREENCAPTURE_LOCK.lock() on thread t.  No command panics with the guard,
\* so the mutex is never poisoned.
LockScreencapture(t) ==
  /\ threads[t].op \in Commands
  /\ threads[t].pc = "lock"
  /\ lock_granted(locks.screencapture)
  /\ locks' = [locks EXCEPT !.screencapture = t]
  /\ threads' = [threads EXCEPT ![t].pc = "check"]
  /\ UNCHANGED <<children, counts>>
  /\ UNCHANGED sessionVars
  /\ UNCHANGED pollVars
  /\ UNCHANGED stitchVars
  /\ UNCHANGED frameVars
  /\ UNCHANGED captureVars
  /\ UNCHANGED regionVars

\* With the guard, thread t asks pgrep for a process named screencapture (one
\* of the program's or a foreign one; pgrep failing counts as none) and checks
\* the permission.  Either returns an error, dropping the guard.  After them
\* native_capture_ocr_region leaves the block that holds the guard; the other
\* commands keep it.
CheckRunning(t) ==
  /\ threads[t].op \in Commands
  /\ threads[t].pc = "check"
  /\ \E pgrep \in {"ok", "failed"} : \E foreign \in BOOLEAN : \E permitted \in BOOLEAN :
       LET running == pgrep = "ok" /\ (children # {} \/ foreign)
           error == IF running
                      THEN "Another screenshot capture is already in progress"
                      ELSE "permission:Screen Recording permission required"
       IN  IF running \/ ~permitted
             THEN /\ threads' = [threads EXCEPT ![t].pc = "idle"]
                  /\ cresult' = CaptureResult("Err", "", error)
                  /\ locks' = [locks EXCEPT !.screencapture = 0]
             ELSE /\ threads' = [threads EXCEPT ![t].pc = "spawn"]
                  /\ UNCHANGED cresult
                  /\ locks' = [locks EXCEPT !.screencapture =
                                 IF threads[t].op = "native_capture_ocr_region" THEN 0 ELSE @]
  /\ UNCHANGED <<ccall, capture, children, counts>>
  /\ UNCHANGED sessionVars
  /\ UNCHANGED pollVars
  /\ UNCHANGED stitchVars
  /\ UNCHANGED frameVars
  /\ UNCHANGED regionVars

\* Thread t names the file, creates the directory and starts screencapture;
\* each can fail, which returns and drops the guard if the command has it.
SpawnScreencapture(t) ==
  /\ threads[t].op \in Commands
  /\ threads[t].pc = "spawn"
  /\ \E outcome \in {"filename", "create_dir", "spawn", "ok"} :
       IF outcome = "ok"
         THEN /\ children' = children \cup {t}
              /\ threads' = [threads EXCEPT ![t].pc = "wait"]
              /\ UNCHANGED <<locks, cresult>>
         ELSE /\ threads' = [threads EXCEPT ![t].pc = "idle"]
              /\ cresult' = CaptureResult("Err", "",
                              CASE outcome = "filename" -> "Failed to generate filename"
                                [] outcome = "create_dir" -> "Failed to create save directory"
                                [] OTHER -> "Failed to run screencapture")
              /\ locks' = [locks EXCEPT !.screencapture = IF @ = t THEN 0 ELSE @]
              /\ UNCHANGED children
  /\ UNCHANGED <<ccall, capture, counts>>
  /\ UNCHANGED sessionVars
  /\ UNCHANGED pollVars
  /\ UNCHANGED stitchVars
  /\ UNCHANGED frameVars
  /\ UNCHANGED regionVars

\* The screencapture process thread t waits for exits; the command returns
\* by its exit status and drops the guard if it has it.
WaitScreencapture(t) ==
  /\ threads[t].op \in Commands
  /\ threads[t].pc = "wait"
  /\ children' = children \ {t}
  /\ threads' = [threads EXCEPT ![t].pc = "idle"]
  /\ \E status \in {"success", "cancelled", "failed"} :
       cresult' = IF status = "success"
                    THEN CaptureResult("Ok", "screenshot", "")
                    ELSE CaptureResult("Err", "",
                           IF status = "cancelled"
                             THEN "cancelled:Screenshot was cancelled or failed"
                             ELSE "command_failed:Screenshot command failed")
  /\ locks' = [locks EXCEPT !.screencapture = IF @ = t THEN 0 ELSE @]
  /\ UNCHANGED <<ccall, capture, counts>>
  /\ UNCHANGED sessionVars
  /\ UNCHANGED pollVars
  /\ UNCHANGED stitchVars
  /\ UNCHANGED frameVars
  /\ UNCHANGED regionVars

Next ==
  \/ MarkCapturing
  \/ AppendAccepted
  \/ AppendFailed
  \/ Cancel
  \/ Progress

NextPoll ==
  \/ ResetScrollMonitor
  \/ PollScrollRegion

NextStitch ==
  \/ StitchScrollFrames
  \/ StitchFrame
  \/ StitchFinish
  \/ PreviewScrollFrames
  \/ PreviewFrame
  \/ PreviewFinish

Spec == Init /\ [][Next]_vars

SpecAny == InitAny /\ [][Next]_vars

SpecPoll == InitPoll /\ [][NextPoll]_vars

SpecStitch == InitStitch /\ [][NextStitch]_vars

NextFrames ==
  \/ SampleFrameDifference
  \/ FindBestOverlap

SpecFrames == InitFrames /\ [][NextFrames]_vars

NextCapture == CaptureRectFrameScreenCaptureKit

SpecCapture == InitCapture /\ [][NextCapture]_vars

SpecRegion == InitRegion /\ [][Clamped]_vars

NextMonitor ==
  \E t \in ThreadIds :
    \/ PollEnter(t)
    \/ ResetEnter(t)
    \/ LockMonitor(t)
    \/ PollLocked(t)
    \/ ResetLocked(t)

SpecMonitor == InitMonitor /\ [][NextMonitor]_vars

NextScreencapture ==
  \E t \in ThreadIds :
    \/ CommandEnter(t)
    \/ LockScreencapture(t)
    \/ CheckRunning(t)
    \/ SpawnScreencapture(t)
    \/ WaitScreencapture(t)

SpecScreencapture == InitScreencapture /\ [][NextScreencapture]_vars

TypeOK ==
  /\ session.state \in ScrollSessionState
  /\ session.config \in Configs
  /\ session.frames \in 0..FramesCap
  /\ session.captured_height_px \in 0..U32_MAX
  /\ session.consecutive_failures \in 0..U8_MAX
  /\ monitor \in {None} \cup
       {Some(st) : st \in [prev_frame : {None} \cup {Some(f) : f \in PollFrames},
                           was_scrolling : BOOLEAN,
                           stable_count : {0},
                           frame_count : 0..MaxFrameCount]}
  /\ poisoned \in BOOLEAN
  /\ frames_dir.count \in 0..MaxFiles

(***************************************************************************)
(* Properties of ScrollSession.                                            *)
(***************************************************************************)
Terminal == {"Done", "Error"}

CountersUnchanged ==
  /\ session'.frames = session.frames
  /\ session'.captured_height_px = session.captured_height_px
  /\ session'.consecutive_failures = session.consecutive_failures

\* C1 as stated: once the session is Done or Error, no call changes its
\* state, frames, captured_height_px or consecutive_failures.
C1_TerminalIsSink ==
  [][session.state \in Terminal =>
       /\ session'.state = session.state
       /\ CountersUnchanged]_vars

\* C1 as amended: once the session is Done or Error, mark_capturing changes
\* none of its fields, cancel changes nothing but the state, which it makes
\* Done, append_failed leaves frames and captured_height_px alone, and no
\* call takes the session back to Ready or to Paused.  (append_accepted and
\* append_failed have no guard: they still update the counters and can move
\* the session to Capturing, Done or Error.)
C1_TerminalGuards ==
  [][session.state \in Terminal =>
       /\ call'.op = "mark_capturing" =>
            session'.state = session.state /\ CountersUnchanged
       /\ call'.op = "cancel" =>
            session'.state = "Done" /\ CountersUnchanged
       /\ call'.op = "append_failed" =>
            /\ session'.frames = session.frames
            /\ session'.captured_height_px = session.captured_height_px
       /\ session'.state \notin {"Ready", "Paused"}]_vars

\* mark_capturing was called on a session that had failed, after frames had
\* been accepted, and the session is still in Error.
C1_Witness ==
  /\ call.op = "mark_capturing"
  /\ call.before = "Error"
  /\ session.state = "Error"
  /\ session.frames > 0

\* C2: append_accepted(added_height, score) adds 1 to frames, adds
\* added_height to captured_height_px saturating at the u32 maximum and sets
\* consecutive_failures to 0; then, if the new captured_height_px >=
\* max_height_px or the new frames >= max_frames, the state is Done and the
\* result AutoStopped(ReachedMaxHeight), otherwise the state is Capturing and
\* the result Accepted{dy: added_height, score}.
C2_AppendAccepted ==
  [][call'.op = "append_accepted" =>
       LET h == call'.added_height
           limit == session.config
       IN  /\ session'.frames = session.frames + 1
           /\ session'.captured_height_px = Min(session.captured_height_px + h, U32_MAX)
           /\ session'.consecutive_failures = 0
           /\ session'.config = session.config
           /\ IF \/ session'.captured_height_px >= limit.max_height_px
                 \/ session'.frames >= limit.max_frames
                THEN /\ session'.state = "Done"
                     /\ result' = [kind |-> "AutoStopped", reason |-> "ReachedMaxHeight"]
                ELSE /\ session'.state = "Capturing"
                     /\ result' = [kind |-> "Accepted", dy |-> h, score |-> call'.score]]_vars

\* Only append_accepted was called, the heights passed add up to more than
\* the u32 maximum, and captured_height_px stands at that maximum.
C2_Witness ==
  /\ call.op = "append_accepted"
  /\ run.only = "append_accepted"
  /\ run.sum > U32_MAX
  /\ session.captured_height_px = U32_MAX

\* C3: append_failed adds 1 to consecutive_failures, saturating at 255; if
\* the new count >= max_consecutive_failures the state is Error and the
\* result AutoStopped(ConsecutiveFailures), otherwise the result is
\* Skipped(MatchFailed) and the state is unchanged.  So in a fresh session
\* with max_consecutive_failures = N >= 1 the k-th append_failed in a row
\* returns Skipped for k < N, and AutoStopped with state Error for k = N.
C3_AppendFailed ==
  [][call'.op = "append_failed" =>
       LET N == session.config.max_consecutive_failures
           k == run'.calls
       IN  /\ session'.consecutive_failures =
                 IF session.consecutive_failures = 255
                   THEN 255 ELSE session.consecutive_failures + 1
           /\ IF session'.consecutive_failures >= N
                THEN /\ session'.state = "Error"
                     /\ result' = [kind |-> "AutoStopped", reason |-> "ConsecutiveFailures"]
                ELSE /\ session'.state = session.state
                     /\ result' = [kind |-> "Skipped", reason |-> "MatchFailed"]
           /\ (run'.only = "append_failed" /\ N >= 1 /\ k < N) =>
                result'.kind = "Skipped" /\ session'.state = "Ready"
           /\ (run'.only = "append_failed" /\ N >= 1 /\ k = N) =>
                result'.kind = "AutoStopped" /\ session'.state = "Error"]_vars

\* A fresh session with max_consecutive_failures = 255 has failed 255 times
\* in a row, and the 255th failure stopped it.
C3_Witness ==
  /\ call.op = "append_failed"
  /\ run.only = "append_failed"
  /\ run.calls = U8_MAX
  /\ session.config.max_consecutive_failures = U8_MAX
  /\ session.state = "Error"
  /\ call.before = "Ready"

\* A fresh session on which only append_accepted has been called.
OnlyAccepted == run.only = "append_accepted"

\* C4 as stated: in a fresh session on which only append_accepted is
\* called, a call returns Accepted with state Capturing while the sum of the
\* heights is below max_height_px and the number of calls below max_frames,
\* and AutoStopped(ReachedMaxHeight) with state Done otherwise; and the
\* session is Done after at most max_frames accepted appends.
C4_DoneWithinMaxFrames ==
  /\ OnlyAccepted =>
       IF run.sum < session.config.max_height_px /\ run.calls < session.config.max_frames
         THEN session.state = "Capturing"
         ELSE session.state = "Done"
  /\ (run.only \in {"none", "append_accepted"}
        /\ run.calls >= session.config.max_frames) => session.state = "Done"

\* C4 as amended: the same, with the session Done after at most
\* max(1, max_frames) accepted appends: with max_frames = 0 it is the first
\* append that stops the session.
C4_DoneWithinMaxFramesOrOne ==
  /\ OnlyAccepted =>
       IF run.sum < session.config.max_height_px /\ run.calls < session.config.max_frames
         THEN /\ session.state = "Capturing"
              /\ call.op = "append_accepted" =>
                   result = [kind |-> "Accepted", dy |-> call.added_height,
                             score |-> call.score]
         ELSE /\ session.state = "Done"
              /\ call.op = "append_accepted" =>
                   result = [kind |-> "AutoStopped", reason |-> "ReachedMaxHeight"]
  /\ (OnlyAccepted /\ run.calls >= Max(1, session.config.max_frames)) =>
       session.state = "Done"

\* The second append of a fresh session reached max_frames = 2 with the
\* height still under the limit, and stopped the session.
C4_Witness ==
  /\ OnlyAccepted
  /\ call.op = "append_accepted"
  /\ run.calls = 2
  /\ session.config.max_frames = 2
  /\ run.sum < session.config.max_height_px
  /\ session.state = "Done"
  /\ call.before = "Capturing"

\* The edges C5 allows.
C5_Edges ==
  {<<"Ready", "Capturing">>, <<"Capturing", "Done">>, <<"Capturing", "Error">>,
   <<"Capturing", "Paused">>, <<"Paused", "Capturing">>}

\* C5 as stated: from new(), the state changes only along Ready->Capturing,
\* Capturing->Done, Capturing->Error, Capturing->Paused, Paused->Capturing,
\* or by cancel to Done.
C5_OnlyListedEdges ==
  [][session'.state # session.state =>
       \/ <<session.state, session'.state>> \in C5_Edges
       \/ call'.op = "cancel" /\ session'.state = "Done"]_vars

\* C5 as amended: from new(), the state changes only by mark_capturing from
\* Ready or Paused to Capturing, by append_accepted from any state to
\* Capturing or Done, by append_failed from any state to Error, and by
\* cancel from any state to Done; so Paused is never entered and Ready never
\* re-entered by the session's own operations, while Error and Done by
\* auto-stop are entered from any state, Ready, Done and Error included.
C5_EdgesByOperation ==
  [][session'.state # session.state =>
       \/ /\ call'.op = "mark_capturing"
          /\ session.state \in {"Ready", "Paused"}
          /\ session'.state = "Capturing"
       \/ /\ call'.op = "append_accepted"
          /\ session'.state \in {"Capturing", "Done"}
       \/ /\ call'.op = "append_failed"
          /\ session'.state = "Error"
       \/ /\ call'.op = "cancel"
          /\ session'.state = "Done"]_vars

\* append_failed took a session that was never marked capturing from Ready
\* to Error.
C5_Witness ==
  /\ call.op = "append_failed"
  /\ call.before = "Ready"
  /\ session.state = "Error"

\* C6: mark_capturing makes the state Capturing when it is Ready or Paused,
\* and changes neither the state nor any counter in Capturing, Done and
\* Error.
C6_MarkCapturing ==
  [][call'.op = "mark_capturing" =>
       /\ session.state \in {"Ready", "Paused"} => session'.state = "Capturing"
       /\ session.state \in {"Capturing", "Done", "Error"} =>
            session'.state = session.state
       /\ CountersUnchanged
       /\ session'.config = session.config]_vars

\* mark_capturing resumed a paused session that had accepted frames.
C6_Witness ==
  /\ call.op = "mark_capturing"
  /\ call.before = "Paused"
  /\ session.state = "Capturing"
  /\ session.frames > 0

\* C7: cancel makes the state Done from every state, and leaves frames,
\* captured_height_px and consecutive_failures unchanged.
C7_Cancel ==
  [][call'.op = "cancel" =>
       /\ session'.state = "Done"
       /\ CountersUnchanged
       /\ session'.config = session.config]_vars

\* cancel ended a session that was in Error with its counters standing.
C7_Witness ==
  /\ call.op = "cancel"
  /\ call.before = "Error"
  /\ session.state = "Done"
  /\ session.consecutive_failures > 0
  /\ session.captured_height_px > 0

\* C8: frames and captured_height_px never decrease and change only in
\* append_accepted; consecutive_failures is 0 right after append_accepted.
C8_Counters ==
  [][/\ session'.frames >= session.frames
     /\ session'.captured_height_px >= session.captured_height_px
     /\ call'.op # "append_accepted" =>
          /\ session'.frames = session.frames
          /\ session'.captured_height_px = session.captured_height_px
     /\ call'.op = "append_accepted" => session'.consecutive_failures = 0]_vars

\* cancel was called on a session holding frames and height.
C8_Witness ==
  /\ call.op = "cancel"
  /\ session.frames > 0
  /\ session.captured_height_px > 0

\* C9: a session made by new(config) reports frames = 0, captured_height_px
\* = 0 and state = Ready, for every config; and what progress() returns is
\* the session's current frames, captured_height_px and state.
C9_Progress ==
  /\ call.op = "new" =>
       /\ session.config \in Configs
       /\ progress(session) =
            [kind |-> "Progress", frames |-> 0, captured_height_px |-> 0,
             state |-> "Ready"]
  /\ call.op = "progress" =>
       /\ result.kind = "Progress"
       /\ result.frames = session.frames
       /\ result.captured_height_px = session.captured_height_px
       /\ result.state = session.state

\* progress() was called on a session that had accepted one frame of a
\* height other than 1.
C9_Witness ==
  /\ call.op = "progress"
  /\ result.frames = 1
  /\ result.captured_height_px > 1
  /\ result.state = "Capturing"

(***************************************************************************)
(* Properties of the scroll monitor.                                       *)
(***************************************************************************)
\* C10: a poll that finds no previous frame stored (the first after a reset,
\* or the first ever) and succeeds stores the current frame as the baseline,
\* sets frame_count to 1, writes the frame to the frames directory and
\* returns "captured" with frame_count = 1 and the path of that file,
\* whatever the frame holds; was_scrolling is false before and after.
C10_FirstPoll ==
  [][(pcall'.op = "poll_scroll_region" /\ presult'.kind = "Ok" /\ ~HasPrev(monitor)) =>
       /\ monitor # None => ~monitor[1].was_scrolling
       /\ monitor' # None
       /\ monitor'[1].prev_frame = pcall'.frame
       /\ pcall'.frame # None
       /\ monitor'[1].frame_count = 1
       /\ ~monitor'[1].was_scrolling
       /\ presult'.state = "captured"
       /\ presult'.frame_count = 1
       /\ presult'.frame_path # None
       /\ frames_dir'.count = frames_dir.count + 1
       /\ frames_dir'.last = pcall'.frame]_vars

\* A first poll succeeded with two files already in the frames directory,
\* on a frame that is not the generator's start frame.
C10_Witness ==
  /\ pcall.op = "poll_scroll_region"
  /\ ~pcall.had_prev
  /\ presult.kind = "Ok"
  /\ presult.state = "captured"
  /\ presult.frame_count = 1
  /\ frames_dir.count = 3
  /\ pcall.frame[1].start = 3

\* A poll that reaches the comparison: it got a frame and the lock, and a
\* previous frame is stored.  PolledDifference is what it compares.
Compared ==
  /\ pcall'.op = "poll_scroll_region"
  /\ pcall'.frame # None
  /\ ~poisoned
  /\ HasPrev(monitor)

PolledDifference ==
  sample_frame_difference(monitor[1].prev_frame[1], pcall'.frame[1])

\* C11: on a poll with a previous frame stored, a difference of 1.8 or more
\* sets was_scrolling, sets stable_count to 0, replaces the previous frame
\* by the current one, leaves frame_count alone, saves nothing and returns
\* "scrolling" with the unchanged frame_count.
C11_Scrolling ==
  [][Compared =>
       \A diff \in {PolledDifference} :
         (~diff.panic /\ AtLeast(diff.score, 18, 10)) =>
           /\ monitor'[1].was_scrolling
           /\ monitor'[1].stable_count = 0
           /\ monitor'[1].prev_frame = pcall'.frame
           /\ monitor'[1].frame_count = monitor[1].frame_count
           /\ presult' = PollOk("scrolling", None, monitor[1].frame_count)
           /\ frames_dir' = frames_dir]_vars

\* A poll returned "scrolling" after two frames had been captured, and the
\* frame it saw is now the previous frame.
C11_Witness ==
  /\ pcall.op = "poll_scroll_region"
  /\ pcall.had_prev
  /\ presult.kind = "Ok"
  /\ presult.state = "scrolling"
  /\ presult.frame_count = 2
  /\ monitor[1].was_scrolling
  /\ monitor[1].prev_frame = pcall.frame

\* What the poll that finds the content stable after scrolling does when the
\* frame is saved.
CapturedEffects ==
  /\ ~monitor'[1].was_scrolling
  /\ monitor'[1].stable_count = 0
  /\ monitor'[1].prev_frame = pcall'.frame
  /\ monitor'[1].frame_count = monitor[1].frame_count + 1
  /\ frames_dir'.count = frames_dir.count + 1
  /\ frames_dir'.last = pcall'.frame
  /\ presult'.kind = "Ok"
  /\ presult'.state = "captured"
  /\ presult'.frame_path # None
  /\ presult'.frame_count = monitor[1].frame_count + 1

\* C12 as stated: on a poll with a previous frame stored, a difference below
\* 1.8 with was_scrolling set clears was_scrolling, replaces the previous
\* frame by the current one, adds exactly 1 to frame_count, writes the
\* current frame to the frames directory and returns "captured" with the new
\* frame_count.
C12_Captured ==
  [][Compared =>
       \A diff \in {PolledDifference} :
         (~diff.panic /\ ~AtLeast(diff.score, 18, 10) /\ monitor[1].was_scrolling) =>
           CapturedEffects]_vars

\* C12, amended: the same when the frame is saved; when generating the file
\* name, creating the directory, writing the file or encoding its path fails,
\* the poll returns that error with was_scrolling already cleared and
\* stable_count 0, but with the previous frame and frame_count as they were.
C12_CapturedWhenSaved ==
  [][Compared =>
       \A diff \in {PolledDifference} :
         (~diff.panic /\ ~AtLeast(diff.score, 18, 10) /\ monitor[1].was_scrolling) =>
           IF pcall'.save = "ok"
             THEN CapturedEffects
             ELSE /\ pcall'.save \in SaveOutcomes
                  /\ presult' = PollErr(SaveError(pcall'.save, "scroll"))
                  /\ ~monitor'[1].was_scrolling
                  /\ monitor'[1].stable_count = 0
                  /\ monitor'[1].prev_frame = monitor[1].prev_frame
                  /\ monitor'[1].frame_count = monitor[1].frame_count
                  /\ frames_dir'.count \in {frames_dir.count, frames_dir.count + 1}]_vars

\* A poll with a previous frame stored captured the second frame, a frame
\* other than the one stored before it (which the witness of C10 starts
\* from).
C12_Witness ==
  /\ pcall.op = "poll_scroll_region"
  /\ pcall.had_prev
  /\ pcall.save = "ok"
  /\ presult.kind = "Ok"
  /\ presult.state = "captured"
  /\ presult.frame_count = 2
  /\ monitor[1].frame_count = 2
  /\ ~monitor[1].was_scrolling
  /\ frames_dir.last = pcall.frame

\* C13: on a poll with a previous frame stored, a difference below 1.8 with
\* was_scrolling clear returns "unchanged" and changes nothing: the previous
\* frame is not replaced by the current one, and was_scrolling, stable_count
\* and frame_count keep their values; nothing is saved.
C13_Unchanged ==
  [][Compared =>
       \A diff \in {PolledDifference} :
         (~diff.panic /\ ~AtLeast(diff.score, 18, 10) /\ ~monitor[1].was_scrolling) =>
           /\ presult' = PollOk("unchanged", None, monitor[1].frame_count)
           /\ monitor' = monitor
           /\ frames_dir' = frames_dir]_vars

\* A poll returned "unchanged" on a frame that is not the stored previous
\* frame, which is still stored, after two frames had been captured.
C13_Witness ==
  /\ pcall.op = "poll_scroll_region"
  /\ pcall.had_prev
  /\ presult.kind = "Ok"
  /\ presult.state = "unchanged"
  /\ presult.frame_count = 2
  /\ monitor[1].prev_frame # pcall.frame
  /\ ~monitor[1].was_scrolling

\* C14: reset_scroll_monitor, from any prior state, leaves the monitor with
\* prev_frame = None, was_scrolling = false, stable_count = 0 and
\* frame_count = 0, and a poll that succeeds right after it is a first poll:
\* it returns "captured" with frame_count = 1.
C14_ResetReinitializes ==
  [][/\ pcall'.op = "reset_scroll_monitor" => monitor' = Some(NewScrollMonitorState)
     /\ (/\ pcall.op = "reset_scroll_monitor"
         /\ pcall'.op = "poll_scroll_region"
         /\ presult'.kind = "Ok") =>
          /\ presult'.state = "captured"
          /\ presult'.frame_count = 1]_vars

\* The last sampled coordinate of a side of the previous frame lies outside
\* the current frame: get_pixel on the current frame panics.
LastSampled(size, step) == ((size - 1) \div step) * step
SampledOutside(prev, current) ==
  /\ prev.width > 0
  /\ prev.height > 0
  /\ \/ LastSampled(prev.width, Max(prev.width \div 80, 1)) >= current.width
     \/ LastSampled(prev.height, Max(prev.height \div 80, 1)) >= current.height

InvalidInput(frame_paths) ==
  \/ Len(frame_paths) < 2
  \/ Len(frame_paths) > MAX_SCROLL_FRAMES
  \/ \E i \in DOMAIN frame_paths :
       /\ frame_paths[1] # None
       /\ frame_paths[i] # None
       /\ \/ frame_paths[i][1].width # frame_paths[1][1].width
          \/ frame_paths[i][1].height # frame_paths[1][1].height

\* C16: stitch_scroll_frames on a list of fewer than 2 frames, of more than
\* 80 frames, or with a frame whose width or height differs from frame 0's
\* returns an error before it makes a piece, picks a reference or writes a
\* composite.
C16_RejectsInvalidInput ==
  (/\ scall.op = "stitch_scroll_frames"
   /\ stitch.pc # "call"
   /\ InvalidInput(scall.frame_paths)) =>
     /\ stitch.pc = "return"
     /\ sresult.kind = "Err"
     /\ stitch.pieces = <<>>
     /\ stitch.prev_frame = None
     /\ save_dir = None

\* stitch_scroll_frames has rejected a list of 81 frames of one size.
C16_Witness ==
  /\ scall.op = "stitch_scroll_frames"
  /\ stitch.pc = "return"
  /\ Len(scall.frame_paths) = MAX_SCROLL_FRAMES + 1
  /\ \A i \in DOMAIN scall.frame_paths :
       /\ scall.frame_paths[i] # None
       /\ scall.frame_paths[i][1].width = scall.frame_paths[1][1].width
       /\ scall.frame_paths[i][1].height = scall.frame_paths[1][1].height
  /\ sresult = StitchErr("Too many frames. Maximum is 80")

\* A pass of the loop of a stitcher is about to run, and what it computes:
\* the difference of the next frame to the running reference, and the
\* overlap search of the two.
LoopPass ==
  /\ stitch.pc = "loop"
  /\ stitch.idx + 1 < Len(stitch.loaded_frames)
StitchedDifference ==
  sample_frame_difference(stitch.prev_frame[1], NextFrame(stitch))
StitchedOverlap == find_best_overlap(stitch.prev_frame[1], NextFrame(stitch))

\* C17: in stitch_scroll_frames, a frame after frame 0 whose difference to
\* the running reference is below 1.8, or for which find_best_overlap
\* against the reference fails, counts as one skip; the pieces and the
\* reference stay as they are, the loop goes on to the next frame and the
\* call has not returned.
C17_SkipContinues ==
  [][(scall.op = "stitch_scroll_frames" /\ LoopPass) =>
       \A diff \in {StitchedDifference} :
         (~AtLeast(diff.score, 18, 10) \/ ~StitchedOverlap.ok) =>
           /\ stitch'.skipped_frames = stitch.skipped_frames + 1
           /\ stitch'.pieces = stitch.pieces
           /\ stitch'.prev_frame = stitch.prev_frame
           /\ stitch'.idx = stitch.idx + 1
           /\ stitch'.loaded_frames = stitch.loaded_frames
           /\ stitch'.pc = "loop"
           /\ sresult' = StitchPending
           /\ save_dir' = None]_vars

\* A stitch of three frames succeeded although its second frame was skipped:
\* that frame differs from frame 0 by 1.8 or more and no overlap was found
\* for it; the third frame was then matched against frame 0.
C17_Witness ==
  /\ scall.op = "stitch_scroll_frames"
  /\ Len(scall.frame_paths) = 3
  /\ sresult.kind = "Ok"
  /\ sresult.skipped_frames = 1
  /\ sresult.used_frames = 2
  /\ stitch.pieces[2].src = stitch.loaded_frames[3]
  /\ AtLeast(sample_frame_difference(stitch.loaded_frames[1],
                                     stitch.loaded_frames[2]).score, 18, 10)
  /\ ~find_best_overlap(stitch.loaded_frames[1], stitch.loaded_frames[2]).ok

\* The rows [overlap, height) of a frame, as a piece.
RowsFrom(frame, overlap) ==
  [src |-> frame, x |-> 0, y |-> overlap, width |-> frame.width,
   height |-> frame.height - overlap]

\* C18: in both stitchers, a frame whose overlap search succeeds with
\* overlap o adds exactly its rows [o, height) as the next piece when
\* height - o >= 10, and the frame itself, uncropped, becomes the running
\* reference; when height - o < 10 the frame is skipped (and counted, in
\* stitch_scroll_frames) and the reference stays.  So the running reference
\* is always the frame of the last piece: frame 0, or the last frame a
\* piece was taken from.
C18_SliceAndReference ==
  [][/\ LoopPass =>
          \A diff \in {StitchedDifference} :
            AtLeast(diff.score, 18, 10) =>
              \A found \in {StitchedOverlap} :
                found.ok =>
                  IF NextFrame(stitch).height - found.overlap >= 10
                    THEN /\ stitch'.pieces =
                              Append(stitch.pieces,
                                     RowsFrom(NextFrame(stitch), found.overlap))
                         /\ stitch'.prev_frame = Some(NextFrame(stitch))
                         /\ stitch'.skipped_frames = stitch.skipped_frames
                    ELSE /\ stitch'.pieces = stitch.pieces
                         /\ stitch'.prev_frame = stitch.prev_frame
                         /\ scall.op = "stitch_scroll_frames" =>
                              stitch'.skipped_frames = stitch.skipped_frames + 1
     /\ stitch'.pc = "loop" =>
          stitch'.prev_frame = Some(stitch'.pieces[Len(stitch'.pieces)].src)]_vars

\* Two frames were appended after frame 0, the first below an overlap of 24
\* rows and the second below one of 26, and the second is the reference.
C18_Witness ==
  /\ stitch.pc = "loop"
  /\ Len(stitch.pieces) = 3
  /\ stitch.pieces[2] = RowsFrom(stitch.loaded_frames[2], 24)
  /\ stitch.pieces[3] = RowsFrom(stitch.loaded_frames[3], 26)
  /\ stitch.prev_frame = Some(stitch.loaded_frames[3])

\* The row of the composite at which piece i starts: the heights of the
\* pieces before it, added up.
Offset(pieces, i) == Sum([j \in 1..(i - 1) |-> pieces[j].height])

\* The pieces come from frames of the list in the order of the list.
InInputOrder(pieces, frames) ==
  \E k \in [DOMAIN pieces -> DOMAIN frames] :
    /\ \A i \in DOMAIN pieces : frames[k[i]] = pieces[i].src
    /\ \A i, j \in DOMAIN pieces : i < j => k[i] < k[j]

\* C19: the composite a successful stitch_scroll_frames writes has the width
\* of the frames and the height final_height, the sum of the heights of the
\* pieces; its rows [0, height) are the rows of frame 0, and piece i fills
\* exactly the rows from the sum of the heights of the pieces before it on,
\* the pieces following the order of the list: no row is left out and none
\* is written twice.
C19_Composite ==
  (scall.op = "stitch_scroll_frames" /\ sresult.kind = "Ok") =>
    /\ save_dir # None
    /\ save_dir[1].width = stitch.loaded_frames[1].width
    /\ save_dir[1].height = final_height(stitch.pieces)
    /\ sresult.final_height = save_dir[1].height
    /\ DOMAIN save_dir[1].rows = 0..(save_dir[1].height - 1)
    /\ stitch.pieces[1] = RowsFrom(stitch.loaded_frames[1], 0)
    /\ \A i \in DOMAIN stitch.pieces :
         \A r \in 0..(stitch.pieces[i].height - 1) :
           save_dir[1].rows[Offset(stitch.pieces, i) + r] =
             [src |-> Some(stitch.pieces[i].src), y |-> stitch.pieces[i].y + r]
    /\ Offset(stitch.pieces, Len(stitch.pieces) + 1) = save_dir[1].height
    /\ InInputOrder(stitch.pieces, stitch.loaded_frames)

\* A composite of three pieces: 66 rows of frame 0, 42 rows of the second
\* frame from its row 24 on, and 40 rows of the third from its row 26 on.
C19_Witness ==
  /\ scall.op = "stitch_scroll_frames"
  /\ sresult.kind = "Ok"
  /\ sresult.final_height = 148
  /\ save_dir[1].rows[65] = [src |-> Some(stitch.loaded_frames[1]), y |-> 65]
  /\ save_dir[1].rows[66] = [src |-> Some(stitch.loaded_frames[2]), y |-> 24]
  /\ save_dir[1].rows[108] = [src |-> Some(stitch.loaded_frames[3]), y |-> 26]
  /\ save_dir[1].rows[147] = [src |-> Some(stitch.loaded_frames[3]), y |-> 65]

\* A list stitch_scroll_frames does not reject for its length or for a frame
\* of another size, with every file readable.
ValidInput(frame_paths) ==
  /\ ~Unreadable(frame_paths)
  /\ ~InvalidInput(frame_paths)

\* C20 as stated: stitch_scroll_frames on a valid list fails if and only if
\* fewer than 2 pieces are left, every frame after frame 0 having been
\* skipped; with a later frame appended it succeeds with used_frames >= 2.
C20_FailsOnlyOnTooFewSlices ==
  (/\ scall.op = "stitch_scroll_frames"
   /\ stitch.pc = "return"
   /\ ValidInput(scall.frame_paths)) =>
     /\ sresult.kind = "Err" <=> Len(stitch.pieces) < 2
     /\ Len(stitch.pieces) >= 2 =>
          /\ sresult.kind = "Ok"
          /\ sresult.used_frames >= 2

\* C20, amended: on a valid list of frames of at least 20 x 20 pixels,
\* stitch_scroll_frames fails if and only if fewer than 2 pieces are left
\* (every frame after frame 0 was skipped) or the composite cannot be saved;
\* with a later frame appended and the composite saved it succeeds with
\* used_frames = the number of pieces >= 2, however many frames were
\* skipped.  Frames narrower or lower than 20 pixels are an error of their
\* own.
C20_FailsOnTooFewSlicesOrSave ==
  (/\ scall.op = "stitch_scroll_frames"
   /\ stitch.pc = "return"
   /\ ValidInput(scall.frame_paths)) =>
     IF \/ scall.frame_paths[1][1].width < 20
        \/ scall.frame_paths[1][1].height < 20
       THEN sresult = StitchErr("Captured frame is too small")
       ELSE /\ sresult.kind \in {"Ok", "Err"}
            /\ sresult.kind = "Err" <=> (Len(stitch.pieces) < 2 \/ stitch.save # "ok")
            /\ Len(stitch.pieces) < 2 =>
                 /\ sresult = StitchErr(NotEnoughFrames)
                 /\ stitch.skipped_frames = Len(scall.frame_paths) - 1
                 /\ save_dir = None
            /\ (Len(stitch.pieces) >= 2 /\ stitch.save # "ok") =>
                 /\ stitch.save \in StitchSaveOutcomes
                 /\ sresult = StitchErr(StitchSaveError(stitch.save))
            /\ sresult.kind = "Ok" =>
                 /\ sresult.used_frames = Len(stitch.pieces)
                 /\ sresult.used_frames >= 2
                 /\ sresult.skipped_frames = stitch.skipped_frames
                 /\ sresult.total_frames = Len(scall.frame_paths)

\* A stitch of 80 frames succeeded with one frame appended after frame 0 and
\* the 78 others skipped.
C20_Witness ==
  /\ scall.op = "stitch_scroll_frames"
  /\ Len(scall.frame_paths) = MAX_SCROLL_FRAMES
  /\ sresult.kind = "Ok"
  /\ sresult.used_frames = 2
  /\ sresult.skipped_frames = MAX_SCROLL_FRAMES - 2

\* A non-empty list of readable frames that all have the size of frame 0.
EqualSized(frame_paths) ==
  /\ Len(frame_paths) >= 1
  /\ ~Unreadable(frame_paths)
  /\ \A i \in DOMAIN frame_paths :
       /\ frame_paths[i][1].width = frame_paths[1][1].width
       /\ frame_paths[i][1].height = frame_paths[1][1].height

\* The image whose rows are the rows of one frame, all of them.
IsFrame(image, frame) ==
  /\ image.width = frame.width
  /\ image.height = frame.height
  /\ \A r \in 0..(frame.height - 1) : image.rows[r] = [src |-> Some(frame), y |-> r]

\* C21: stitch_scroll_frames_preview on a non-empty list of equal-sized
\* frames never fails because frames were filtered out as duplicates or for
\* a failed overlap match: it returns an error only for frames under 20
\* pixels or when the preview cannot be saved.  When filtering leaves only
\* the seed piece, the image it writes is exactly the last frame of the list
\* (height = frame height), not frame 0; with one frame it is that frame.
C21_PreviewFallback ==
  (/\ scall.op = "stitch_scroll_frames_preview"
   /\ stitch.pc = "return"
   /\ EqualSized(scall.frame_paths)) =>
     LET frames == scall.frame_paths
         last == frames[Len(frames)][1]
     IN  IF frames[1][1].width < 20 \/ frames[1][1].height < 20
           THEN sresult = StitchErr("Captured frame is too small")
           ELSE /\ sresult.kind \in {"Ok", "Err"}
                /\ sresult.kind = "Err" <=> stitch.save # "ok"
                /\ sresult.kind = "Err" =>
                     sresult = StitchErr(PreviewSaveError(stitch.save))
                /\ Len(stitch.pieces) >= 1
                /\ Len(frames) = 1 => Len(stitch.pieces) = 1
                /\ Len(stitch.pieces) = 1 =>
                     /\ stitch.pieces = <<RowsFrom(last, 0)>>
                     /\ stitch.save \in {"ok", "encode_path"} =>
                          save_dir # None /\ IsFrame(save_dir[1], last)

\* A preview of three frames was written although the second frame found no
\* overlap with frame 0 and the third was filtered out too: the image is the
\* third frame, which is not frame 0.
C21_Witness ==
  /\ scall.op = "stitch_scroll_frames_preview"
  /\ stitch.pc = "return"
  /\ Len(scall.frame_paths) = 3
  /\ sresult.kind = "Ok"
  /\ AtLeast(sample_frame_difference(stitch.loaded_frames[1],
                                     stitch.loaded_frames[2]).score, 18, 10)
  /\ ~find_best_overlap(stitch.loaded_frames[1], stitch.loaded_frames[2]).ok
  /\ stitch.loaded_frames[3] # stitch.loaded_frames[1]
  /\ IsFrame(save_dir[1], stitch.loaded_frames[3])

\* C22: stitch_scroll_frames_preview on a list of more than 80 frames
\* returns no error for the excess and works on the last 80 frames of the
\* list only, in the order of the list: the seed piece is the
\* 80th-from-last frame.
C22_PreviewCapsSilently ==
  (/\ scall.op = "stitch_scroll_frames_preview"
   /\ stitch.pc # "call"
   /\ Len(scall.frame_paths) > MAX_SCROLL_FRAMES
   /\ EqualSized(scall.frame_paths)
   /\ scall.frame_paths[1][1].width >= 20
   /\ scall.frame_paths[1][1].height >= 20) =>
     LET frames == scall.frame_paths
         first == Len(frames) - MAX_SCROLL_FRAMES
     IN  /\ sresult.kind = "Err" => sresult = StitchErr(PreviewSaveError(stitch.save))
         /\ Len(stitch.loaded_frames) = MAX_SCROLL_FRAMES
         /\ \A i \in 1..MAX_SCROLL_FRAMES : stitch.loaded_frames[i] = frames[first + i][1]
         /\ stitch.pc = "loop" => stitch.pieces[1] = RowsFrom(frames[first + 1][1], 0)
         /\ \A i \in DOMAIN stitch.pieces :
              \E j \in (first + 1)..Len(frames) : stitch.pieces[i].src = frames[j][1]

\* A preview of 82 frames was written from the 3rd frame and the 4th: the
\* two frames before them, which differ from the 3rd, are not in it.
C22_Witness ==
  /\ scall.op = "stitch_scroll_frames_preview"
  /\ Len(scall.frame_paths) = MAX_SCROLL_FRAMES + 2
  /\ sresult.kind = "Ok"
  /\ scall.frame_paths[1] # scall.frame_paths[3]
  /\ Len(stitch.pieces) = 2
  /\ stitch.pieces[1] = RowsFrom(scall.frame_paths[3][1], 0)
  /\ stitch.pieces[2] = RowsFrom(scall.frame_paths[4][1], 26)
  /\ save_dir[1].height = 106

\* C23: on every list of 2 to 80 equal-sized frames on which
\* stitch_scroll_frames succeeds, stitch_scroll_frames_preview takes the
\* same pieces in the same order and composes an image of the same width
\* and height with the same rows.
C23_SameScan ==
  /\ (scall.op = "stitch_scroll_frames" /\ sresult.kind = "Ok") =>
       /\ Len(scall.frame_paths) \in 2..MAX_SCROLL_FRAMES
       /\ EqualSized(scall.frame_paths)
       /\ preview_enter(scall.frame_paths).error = ""
       /\ \A lenient \in {stitch_scroll_frames_preview(scall.frame_paths, "ok")} :
            /\ lenient.result.kind = "Ok"
            /\ lenient.locals.pieces = stitch.pieces
            /\ lenient.file = save_dir
  /\ (/\ scall.op = "stitch_scroll_frames_preview"
      /\ stitch.pc = "return"
      /\ Len(scall.frame_paths) \in 2..MAX_SCROLL_FRAMES
      /\ EqualSized(scall.frame_paths)
      /\ stitch_enter(scall.frame_paths).error = "") =>
       \A strict \in {stitch_scroll_frames(scall.frame_paths, "ok")} :
         strict.result.kind = "Ok" =>
           /\ strict.locals.pieces = stitch.pieces
           /\ save_dir # None => save_dir = strict.file

\* stitch_scroll_frames made a composite of three pieces, two of them cut
\* from later frames, and the preview of the same list is that composite.
C23_Witness ==
  /\ scall.op = "stitch_scroll_frames"
  /\ sresult.kind = "Ok"
  /\ Len(stitch.pieces) = 3
  /\ stitch.pieces[2].y > 0
  /\ stitch.pieces[3].y > 0
  /\ stitch_scroll_frames_preview(scall.frame_paths, "ok").file = save_dir

\* A list of exactly two equal-sized frames, the second the first scrolled
\* down: same generator, start value larger by ScrollDelta rows.
ScrolledPair(frame_paths) ==
  /\ Len(frame_paths) = 2
  /\ EqualSized(frame_paths)
  /\ frame_paths[2][1].start > frame_paths[1][1].start
ScrollDelta(frame_paths) == frame_paths[2][1].start - frame_paths[1][1].start

\* What C24 promises of the stitch of a pair scrolled by dy rows.
StitchedPair(height, dy) ==
  /\ sresult.kind = "Ok"
  /\ sresult.used_frames = 2
  /\ sresult.skipped_frames = 0
  /\ Abs(sresult.final_height - (height + dy)) <= 8

SearchMin(height) == Min(24, height - 1)
SearchMax(height) == Max(SearchMin(height), height - 40)
SearchCandidates(height) ==
  {o \in SearchMin(height)..SearchMax(height) : (o - SearchMin(height)) % 2 = 0}

\* find_best_overlap has returned.
Searched == fcall.op = "find_best_overlap" /\ fresult.kind = "Returned"

\* C25: when find_best_overlap succeeds, the overlap it returns is one of the
\* candidates min_overlap, min_overlap + 2, ... up to max_overlap, with
\* min_overlap = min(24, height - 1) and max_overlap = max(min_overlap,
\* height - 40); the score it returns is that candidate's and the least of
\* all candidates', and every smaller candidate has a larger score.
C25_FirstMinimum ==
  (Searched /\ fresult.found.ok) =>
    LET found == fresult.found
        candidates == SearchCandidates(fcall.prev.height)
    IN  /\ found.overlap \in candidates
        /\ found.error = overlap_error(fcall.prev, fcall.current, found.overlap)
        /\ \A c \in candidates :
             \A e \in {overlap_error(fcall.prev, fcall.current, c)} :
               /\ ~LessThan(e, found.error)
               /\ c < found.overlap => LessThan(found.error, e)

\* The search returned an overlap above the smallest candidate although a
\* larger candidate has the same score.
C25_Witness ==
  /\ Searched
  /\ fresult.found.ok
  /\ fresult.found.overlap > SearchMin(fcall.prev.height)
  /\ \E c \in SearchCandidates(fcall.prev.height) :
       /\ c > fresult.found.overlap
       /\ ~LessThan(fresult.found.error, overlap_error(fcall.prev, fcall.current, c))

\* The candidates whose score is usable: overlap_error returns f64::MAX for
\* an overlap of 0 and when it samples no pixel.
Usable(prev, current) ==
  {c \in SearchCandidates(prev.height) :
     c >= 0 /\ overlap_error(prev, current, c).den # 0}

\* Whether a score is above the quality ceiling 42.0.
AboveCeiling(score) == score.num > 42 * score.den

\* C26: find_best_overlap fails in exactly two cases: no candidate has a
\* usable score, or the least score is above 42.0; a least score of 42.0 or
\* less succeeds and is returned with its overlap.  A loop pass of either
\* stitcher on a frame whose search fails skips the frame, whichever the
\* case: the pieces and the reference stay, and stitch_scroll_frames counts
\* one skip.
C26_FailsOnNoScoreOrCeiling ==
  Searched =>
    LET found == fresult.found
        prev == fcall.prev
        current == fcall.current
        usable == Usable(prev, current)
        st == seeded(<<prev, current>>)
    IN  /\ ~found.ok <=>
             \/ usable = {}
             \/ \A c \in usable : AboveCeiling(overlap_error(prev, current, c))
        /\ found.ok =>
             /\ found.overlap \in usable
             /\ found.error = overlap_error(prev, current, found.overlap)
             /\ ~AboveCeiling(found.error)
        /\ (~found.ok /\ AtLeast(sample_frame_difference(prev, current).score, 18, 10)) =>
             /\ stitch_frame(st, current) = [st EXCEPT !.skipped_frames = 1, !.idx = 1]
             /\ preview_frame(st, current) = [st EXCEPT !.idx = 1]

\* The search failed on two frames whose only candidate has a score between
\* 42 and 43.
C26_Witness ==
  /\ Searched
  /\ ~fresult.found.ok
  /\ Usable(fcall.prev, fcall.current) = {24}
  /\ \A e \in {overlap_error(fcall.prev, fcall.current, 24)} :
       e.num > 42 * e.den /\ e.num < 43 * e.den

\* The second frame of the call is the first shifted by dy >= 1 rows: same
\* size, same generator, start value larger by dy.
Shifted ==
  /\ fcall.current.width = fcall.prev.width
  /\ fcall.current.height = fcall.prev.height
  /\ fcall.current.start > fcall.prev.start
ShiftDelta == fcall.current.start - fcall.prev.start

\* What C27 promises of the search on a frame and its copy shifted by dy.
FoundShift(height, dy) ==
  /\ fresult.found.ok
  /\ Abs(fresult.found.overlap - (height - dy)) <= 8
  /\ fresult.found.error.num < 42 * fresult.found.error.den

Differenced == fcall.op = "sample_frame_difference" /\ fresult.kind # "Pending"

\* The call compared a frame that has pixels with itself.
SameFrame ==
  /\ Differenced
  /\ fcall.current = fcall.prev
  /\ fcall.prev.width >= 1
  /\ fcall.prev.height >= 1

\* A poll that compares frame with the stored frame prev_frame and gets the
\* difference diff.
PollAgainst(prev_frame, was_scrolling, frame, diff) ==
  next_poll([NewScrollMonitorState EXCEPT !.prev_frame = Some(prev_frame),
                                          !.was_scrolling = was_scrolling,
                                          !.frame_count = 1],
            frame, diff, "ok", [count |-> 1, last |-> Some(prev_frame)])

\* C28: the difference of a bitmap that has pixels and an identical copy is
\* 0, which is below 0.5 and below the change threshold 1.8; so a poll of a
\* frame identical to the stored one does not report "scrolling", and the
\* strict and the preview stitcher skip a frame identical to the reference.
C28_IdenticalIsZero ==
  SameFrame =>
    LET frame == fcall.prev
        st == seeded(<<frame, frame>>)
    IN  /\ fresult.kind = "Returned"
        /\ fresult.score.den > 0
        /\ fresult.score.num = 0
        /\ ~AtLeast(fresult.score, 1, 2)
        /\ ~AtLeast(fresult.score, 18, 10)
        /\ \A was_scrolling \in BOOLEAN :
             LET polled == PollAgainst(frame, was_scrolling, frame,
                                       [panic |-> FALSE, score |-> fresult.score])
             IN  /\ polled.result.kind = "Ok"
                 /\ polled.result.state # "scrolling"
                 /\ polled.state.was_scrolling = FALSE
        /\ stitch_frame(st, frame) =
             [st EXCEPT !.skipped_frames = 1, !.idx = 1]
        /\ preview_frame(st, frame).pieces = st.pieces

\* The difference of a frame of one row with itself, and of a frame of 80
\* rows whose values wrap around with itself, was computed and is 0.
C28_Witness ==
  /\ SameFrame
  /\ \/ fcall.prev.height = 1
     \/ fcall.prev.height = 80 /\ fcall.prev.start = 200
  /\ fresult.kind = "Returned"
  /\ fresult.score.num = 0

(***************************************************************************)
(* The frame difference on frames of two sizes, reached from a poll.       *)
(***************************************************************************)
\* The frame the poll was delivered differs in width or height from the
\* stored previous frame.
SizesDiffer ==
  LET prev == monitor[1].prev_frame[1]
      current == pcall'.frame[1]
  IN  prev.width # current.width \/ prev.height # current.height

\* C29: a poll whose current frame has another size than the stored previous
\* frame returns an error value: it neither classifies the frame by a score
\* nor panics, and the lock of the monitor stays usable.
C29_MismatchIsError ==
  [][(Compared /\ SizesDiffer) =>
       /\ presult'.kind = "Err"
       /\ ~poisoned'
       /\ monitor' = monitor]_vars

(***************************************************************************)
(* Properties of the ScreenCaptureKit capture.                             *)
(***************************************************************************)
\* The capture has returned.
Captured ==
  /\ ccall.op = "capture_rect_frame_screen_capture_kit"
  /\ cresult.kind # "Pending"

\* The center of rect lies in the logical bounds of geometry, origin
\* included and origin + size excluded; both sides are doubled, so the
\* center is 2 x + width and 2 y + height.
HoldsCenter(rect, geometry) ==
  /\ 2 * f32(rect.x) + f32(rect.width) >= 2 * geometry.logical_x
  /\ 2 * f32(rect.x) + f32(rect.width) <
       2 * (geometry.logical_x + geometry.logical_width)
  /\ 2 * f32(rect.y) + f32(rect.height) >= 2 * geometry.logical_y
  /\ 2 * f32(rect.y) + f32(rect.height) <
       2 * (geometry.logical_y + geometry.logical_height)

NoMonitorError == "capture_failed:Selected area is outside available monitors"

\* C30: when the monitors were loaded, the capture works on the first
\* monitor in their order whose logical bounds, half-open on both axes, hold
\* the center of the rectangle; when none does, it fails with the
\* capture_failed error that says so and has worked on no monitor.
C30_FirstMonitorHoldingCenter ==
  (Captured /\ ccall.displays.error = "") =>
    LET geometry == load_monitor_geometry(ccall.displays).geometry
        holding == {i \in DOMAIN geometry : HoldsCenter(ccall.rect, geometry[i])}
    IN  IF holding = {}
          THEN /\ cresult = CaptureResult("Err", "", NoMonitorError)
               /\ capture = NoCapture
          ELSE /\ cresult.error # NoMonitorError
               /\ \E i \in holding :
                    /\ \A j \in holding : i <= j
                    /\ capture.target = Some(geometry[i])

\* On the monitors Mirror and Primary, in this order, which both hold the
\* center of the rectangle, the capture worked on Mirror and returned a path.
C30_Witness ==
  /\ Captured
  /\ ccall.displays.monitors = <<Mirror, Primary>>
  /\ HoldsCenter(ccall.rect, MonitorGeometry(Primary))
  /\ HoldsCenter(ccall.rect, MonitorGeometry(Mirror))
  /\ capture.target = Some(MonitorGeometry(Mirror))
  /\ cresult.kind = "Ok"

\* The capture has read the monitor image and mapped the rectangle to its
\* pixels.
Mapped ==
  /\ Captured
  /\ capture.target # None
  /\ ccall.screenshot.outcome = "ok"

\* The integer nearest to the f32 a, a half going away from zero.
Nearest(a) ==
  CHOOSE n \in (a \div f32(1) - 1)..(a \div f32(1) + 1) :
    /\ 2 * Abs(f32(n) - a) <= f32(1)
    /\ 2 * Abs(f32(n) - a) = f32(1) => Abs(f32(n)) > Abs(a)

\* rect relative to the target monitor, in pixels of the monitor, not rounded
ScaledX == ((f32(ccall.rect.x) - capture.target[1].logical_x) * capture.target[1].scale) \div f32(1)
ScaledY == ((f32(ccall.rect.y) - capture.target[1].logical_y) * capture.target[1].scale) \div f32(1)
ScaledWidth == ccall.rect.width * capture.target[1].scale
ScaledHeight == ccall.rect.height * capture.target[1].scale

\* C31 as stated: the crop is x = round((rect.x - monitor.x) * scale),
\* y = round((rect.y - monitor.y) * scale), width = round(rect.width * scale)
\* and height = round(rect.height * scale), width and height at least 1.
C31_PixelCrop ==
  Mapped =>
    /\ capture.crop_x = Nearest(ScaledX)
    /\ capture.crop_y = Nearest(ScaledY)
    /\ capture.crop_w = Max(Nearest(ScaledWidth), 1)
    /\ capture.crop_h = Max(Nearest(ScaledHeight), 1)

\* C31, amended: the same, except that x and y are 0 when the rectangle
\* starts left of or above the origin of the monitor.
C31_PixelCropFromZero ==
  Mapped =>
    /\ capture.crop_x = Max(Nearest(ScaledX), 0)
    /\ capture.crop_y = Max(Nearest(ScaledY), 0)
    /\ capture.crop_w = Max(Nearest(ScaledWidth), 1)
    /\ capture.crop_h = Max(Nearest(ScaledHeight), 1)

\* On a monitor of scale 2 at the logical origin the rectangle 100 by 50 at
\* (10, 20) was mapped to the crop 200 by 100 at (20, 40).
C31_Witness ==
  /\ Mapped
  /\ ccall.rect = CaptureRectInput(10, 20, 100, 50)
  /\ capture.target[1].scale = f32(2)
  /\ capture.target[1].logical_x = 0
  /\ capture.target[1].logical_y = 0
  /\ capture.crop_x = 20
  /\ capture.crop_y = 40
  /\ capture.crop_w = 200
  /\ capture.crop_h = 100

NotInImageError == "capture_failed:Selected area is outside monitor bounds"
TooSmallError == "capture_failed:Selected area is too small"

\* C32: with the rectangle mapped to the crop, the capture fails with the
\* capture_failed error for it when the origin of the crop is at or beyond
\* the width or the height of the monitor image, and otherwise when the width
\* or height left from the origin to the edge of the image, or the width or
\* height of the crop if smaller, is below 10; it writes no frame then.
\* Otherwise it fails with neither error, the final crop lies inside the
\* image and is at least 10 by 10, and a frame it writes is that crop.
C32_CropInsideImage ==
  Mapped =>
    LET image == ccall.screenshot
    IN  IF capture.crop_x >= image.width \/ capture.crop_y >= image.height
          THEN /\ cresult = CaptureResult("Err", "", NotInImageError)
               /\ capture.frame = None
        ELSE IF \/ Min(capture.crop_w, image.width - capture.crop_x) < 10
                \/ Min(capture.crop_h, image.height - capture.crop_y) < 10
          THEN /\ cresult = CaptureResult("Err", "", TooSmallError)
               /\ capture.frame = None
        ELSE /\ cresult.error \notin {NotInImageError, TooSmallError}
             /\ capture.crop_x + capture.final_w <= image.width
             /\ capture.crop_y + capture.final_h <= image.height
             /\ capture.final_w >= 10
             /\ capture.final_h >= 10
             /\ capture.final_w <= capture.crop_w
             /\ capture.final_h <= capture.crop_h
             /\ cresult.kind = "Ok" =>
                  capture.frame = Some([x |-> capture.crop_x, y |-> capture.crop_y,
                                        width |-> capture.final_w,
                                        height |-> capture.final_h])

\* A crop wider than what the monitor image has right of its origin was cut
\* to the edge of the image, and the capture returned the frame.
C32_Witness ==
  /\ Mapped
  /\ cresult.kind = "Ok"
  /\ capture.final_w < capture.crop_w
  /\ capture.crop_x + capture.final_w = ccall.screenshot.width
  /\ capture.final_w >= 10

(***************************************************************************)
(* Properties of the crop region.                                          *)
(***************************************************************************)
\* The region lies inside the image.
Inside(r, img_width, img_height) ==
  /\ r.x <= img_width - 1
  /\ r.y <= img_height - 1
  /\ r.x + r.width <= img_width
  /\ r.y + r.height <= img_height

\* C33: for an image at least 1 wide and 1 high, CropRegion::clamped returns
\* a region inside the image; a requested region that is inside the image is
\* returned unchanged; and on each axis an origin beyond the image becomes
\* the last pixel, with a size of at most 1: that requested, if it is 0.
C33_ClampedInside ==
  (rcall.op = "clamped" /\ region # None /\ rcall.img_width >= 1 /\ rcall.img_height >= 1) =>
    LET requested == CropRegion(rcall.x, rcall.y, rcall.width, rcall.height)
    IN  /\ Inside(region[1], rcall.img_width, rcall.img_height)
        /\ Inside(requested, rcall.img_width, rcall.img_height) =>
             region[1] = requested
        /\ rcall.x >= rcall.img_width =>
             /\ region[1].x = rcall.img_width - 1
             /\ region[1].width = Min(rcall.width, 1)
        /\ rcall.y >= rcall.img_height =>
             /\ region[1].y = rcall.img_height - 1
             /\ region[1].height = Min(rcall.height, 1)

\* A region that starts beyond an image 3 wide and 2 high was clamped to the
\* last pixel of it, 1 wide and 1 high.
C33_Witness ==
  /\ rcall.op = "clamped"
  /\ rcall.img_width = 3
  /\ rcall.img_height = 2
  /\ rcall.x = 4
  /\ rcall.y = 4
  /\ rcall.width = 2
  /\ region = Some(CropRegion(2, 1, 1, 1))

(***************************************************************************)
(* Properties of the counts of the strict stitcher.                        *)
(***************************************************************************)
\* C34: in stitch_scroll_frames every frame the loop has handled is counted
\* once, as a piece or as skipped: with frame 0, the pieces and the skipped
\* frames are as many as the frames handled.  A successful stitch has handled
\* every frame: used_frames is the number of pieces, frame 0 and the slices
\* appended, skipped_frames the number of frames skipped, and together they
\* are total_frames, the number of paths passed.
C34_EveryFrameCounted ==
  (scall.op = "stitch_scroll_frames" /\ stitch.pieces # <<>>) =>
    /\ Len(stitch.pieces) + stitch.skipped_frames = 1 + stitch.idx
    /\ sresult.kind = "Ok" =>
         /\ sresult.used_frames = Len(stitch.pieces)
         /\ sresult.skipped_frames = stitch.skipped_frames
         /\ sresult.total_frames = Len(scall.frame_paths)
         /\ sresult.used_frames + sresult.skipped_frames = sresult.total_frames

\* A stitch of three frames succeeded with two frames used and one skipped
\* because its overlap with the reference was not found.
C34_Witness ==
  /\ scall.op = "stitch_scroll_frames"
  /\ sresult.kind = "Ok"
  /\ sresult.total_frames = 3
  /\ sresult.used_frames = 2
  /\ sresult.skipped_frames = 1
  /\ \E i \in 2..3 :
       LET found == find_best_overlap(stitch.loaded_frames[1], stitch.loaded_frames[i])
       IN  /\ AtLeast(sample_frame_difference(stitch.loaded_frames[1],
                                              stitch.loaded_frames[i]).score, 18, 10)
           /\ ~found.ok

(***************************************************************************)
(* Properties of the polls that fail.                                      *)
(***************************************************************************)
\* C35: a poll that returns an error leaves prev_frame, was_scrolling,
\* stable_count and frame_count as they were.
C35_ErrorKeepsState ==
  [][(pcall'.op = "poll_scroll_region" /\ presult'.kind = "Err") =>
       get_or_insert(monitor') = get_or_insert(monitor)]_vars

\* C36: of the polls that return a result between two resets, one that
\* reports "captured" with a frame_count other than 1 comes right after one
\* that reported "scrolling", and one that comes right after a "scrolling"
\* one does not report "unchanged".
C36_EpisodeEndsCaptured ==
  [][(pcall'.op = "poll_scroll_region" /\ presult'.kind = "Ok") =>
       /\ (presult'.state = "captured" /\ presult'.frame_count # 1) =>
            episode = "scrolling"
       /\ episode = "scrolling" => presult'.state # "unchanged"]_vars


\* C37: however concurrent poll_scroll_region and reset_scroll_monitor calls
\* interleave, a poll that holds the guard works on the poller state as it
\* is, no other call writing it between the poll's read and its update; the
\* Captured results returned since the last reset carry the frame_count
\* values 1, 2, 3, ... without duplicate or gap; and prev_frame is absent
\* exactly when frame_count is 0.
C37_AtomicPolls ==
  /\ \A t \in ThreadIds :
       threads[t].pc = "locked" =>
         /\ locks.monitor = t
         /\ threads[t].seen = Some(monitor)
  /\ \A i \in 1..Len(counts) : counts[i] = i
  /\ LET st == get_or_insert(monitor)
     IN  (st.prev_frame = None) <=> (st.frame_count = 0)

\* Two polls have returned Captured since the last reset, and one thread
\* polls under the lock while another waits for it.
C37_Witness ==
  /\ Len(counts) = 2
  /\ \E t \in ThreadIds : \E u \in ThreadIds :
       /\ threads[t].op = "poll_scroll_region"
       /\ threads[t].pc = "locked"
       /\ threads[u].pc = "lock"


\* C38: however the five commands that start screencapture interleave, at
\* most one screencapture process started by the program runs at any time,
\* and the command that started it holds SCREENCAPTURE_LOCK for as long as
\* it runs.
C38_OneChildUnderLock ==
  /\ Cardinality(children) <= 1
  /\ \A t \in children : locks.screencapture = t


(***************************************************************************)
(* Properties of the heights of the strict stitcher.                       *)
(***************************************************************************)
\* C39: in stitch_scroll_frames on frames h rows high, every slice appended
\* after frame 0 is at least 10 and at most h - 24 rows high, and at least 40
\* when h >= 64; so a successful stitch returns a height from
\* h + 10 * (used_frames - 1) to h + (used_frames - 1) * (h - 24).  Frames
\* fewer than 34 rows high never contribute a slice, and their stitch fails.
C39_SliceHeights ==
  (scall.op = "stitch_scroll_frames" /\ stitch.pieces # <<>>) =>
    LET h == stitch.pieces[1].height
    IN  /\ \A i \in 2..Len(stitch.pieces) :
             /\ stitch.pieces[i].height >= 10
             /\ stitch.pieces[i].height <= h - 24
             /\ h >= 64 => stitch.pieces[i].height >= 40
        /\ sresult.kind = "Ok" =>
             /\ h + 10 * (sresult.used_frames - 1) <= sresult.final_height
             /\ sresult.final_height <= h + (sresult.used_frames - 1) * (h - 24)
        /\ h < 34 =>
             /\ Len(stitch.pieces) = 1
             /\ sresult.kind # "Ok"

\* Three frames 66 rows high were stitched from slices of 42 and of 40 rows,
\* the highest and the lowest a frame of that height can leave.
C39_Witness ==
  /\ scall.op = "stitch_scroll_frames"
  /\ sresult.kind = "Ok"
  /\ sresult.used_frames = 3
  /\ Len(stitch.pieces) = 3
  /\ stitch.pieces[1].height = 66
  /\ stitch.pieces[2].height = 42
  /\ stitch.pieces[3].height = 40
  /\ sresult.final_height = 148

====
